---- MODULE Spec2Model ----
(***************************************************************************)
(* Model of kordesii's function-tracing flow chart                          *)
(* (kordesii/utils/function_tracingutils/flowchart.py): the per-block path  *)
(* cache and the lazy path generators of FlowChart.get_paths /              *)
(* FlowChart._build_path, and the incremental CPU context of                *)
(* PathBlock.cpu_context; the block traversals FlowChart._dfs, _bfs and     *)
(* their reverses, FlowChart.find_block and FlowChart.paths_to_ea; and       *)
(* struct_pack / struct_unpack of kordesii/utils/function_tracing/utils.py.  *)
(*                                                                          *)
(* Python objects live in arenas and are referred to by their index         *)
(* (identity): `nodes` holds every PathBlock ever constructed, `gens` every *)
(* generator FlowChart.get_paths created with self._build_path(block), and  *)
(* `calls` every generator object a caller obtained from get_paths(ea).     *)
(* Index 0 stands for Python's None.                                        *)
(***************************************************************************)
EXTENDS Integers, Sequences, FiniteSets, TLC

\* Number of basic blocks of the analysed function (block 0 is the entry).
NumBlocks == 4
\* Number of addresses of one basic block.
BlockSize == 3
\* Number of get_paths(ea) generator objects the caller creates.
MaxCalls == 2

VARIABLES
    edges,        \* the function graph: the set of <<from, to>> block edges
    listing,      \* the order in which preds() and succs() list the blocks
    nodes,        \* arena of PathBlock objects
    path_cache,   \* FlowChart._path_cache: block -> list of PathBlock ids
    gen_cache,    \* FlowChart._gen_cache: block -> generator id (0: no entry)
    gens,         \* arena of _build_path generators created by get_paths
    calls,        \* arena of get_paths generator objects held by the caller
    last,         \* record of the last operation (observation only)
    heap,         \* arena of ProcessorContext objects
    ctx_ref,      \* PathBlock._context as an object: PathBlock id -> heap id
    held,         \* the context objects cpu_context returned to the caller
    found,        \* address -> the results find_block has returned for it
    trav,         \* the generator of a block or instruction traversal
    walk,         \* the generator of paths_to_ea
    conv,         \* a struct_pack / struct_unpack round trip
    calc,         \* a call of a numeric or operand helper and its outcome
    reporter,     \* a Reporter object and what its decoder runs saw
    search,       \* a call of IDA_re.search and its outcome
    faults        \* number of processor steps that have raised

copyVars == <<heap, ctx_ref, held, faults>>
toolVars == <<found, trav, walk, conv>>
utilVars == <<calc, reporter, search>>

vars == <<edges, listing, nodes, path_cache, gen_cache, gens, calls, last,
          heap, ctx_ref, held, found, trav, walk, conv, calc, reporter, search,
          faults>>

Blocks == 0 .. (NumBlocks - 1)

---------------------------------------------------------------------------
(* The disassembler's view: block ranges, instruction heads, edges.        *)

\* idaapi.BasicBlock.startEA / endEA: blocks partition the function range.
StartEA(b) == b * BlockSize
EndEA(b) == StartEA(b) + BlockSize
FuncStart == StartEA(0)
FuncEnd == EndEA(NumBlocks - 1)

\* Addresses a caller may pass: the function's range and one address past it.
Addrs == FuncStart .. FuncEnd

\* An instruction head: instructions are two addresses long, the last
\* instruction of a block may be shorter; every block starts with a head.
IsHead(a) == (a % BlockSize) % 2 = 0

\* idautils.Heads(start, end): the heads in [start, end), ascending.
RECURSIVE Heads(_, _)
Heads(start, end) ==
    IF start >= end THEN << >>
    ELSE IF IsHead(start) THEN <<start>> \o Heads(start + 1, end)
    ELSE Heads(start + 1, end)

\* idc.NextHead(ea): the first head after ea (the item after the function
\* is a head as well).
RECURSIVE NextHead(_)
NextHead(ea) ==
    IF ea + 1 >= FuncEnd \/ IsHead(ea + 1) THEN ea + 1 ELSE NextHead(ea + 1)

\* The elements of a set of integers as an ascending list.
RECURSIVE SortedSeq(_)
SortedSeq(S) ==
    IF S = {} THEN << >>
    ELSE LET m == CHOOSE x \in S : \A y \in S : x <= y
         IN <<m>> \o SortedSeq(S \ {m})

\* reversed(list): the list back to front.
Reverse(s) == [i \in 1 .. Len(s) |-> s[Len(s) + 1 - i]]

\* The order of the blocks in the lists idaapi.BasicBlock.preds() and
\* succs() return is the disassembler's, an input of the program: the
\* model runs with the lists by ascending and by descending block order.
Orders == {"ascending", "descending"}
Listing(p, s) == [preds |-> p, succs |-> s]
BlockOrder == Listing("ascending", "ascending")
Listed(order, S) ==
    IF order = "descending" THEN Reverse(SortedSeq(S)) ELSE SortedSeq(S)

\* cur_block.preds() / cur_block.succs(), as the disassembler lists them.
Preds(E, b) == Listed(listing.preds, {p \in Blocks : <<p, b>> \in E})
Succs(E, b) == Listed(listing.succs, {s \in Blocks : <<b, s>> \in E})

\* The orders that list the parents, or the children, of the blocks of E
\* differently: one order when no block has two of them.
PredOrders(E) ==
    IF \E b \in Blocks : Cardinality({p \in Blocks : <<p, b>> \in E}) > 1
    THEN Orders ELSE {"ascending"}
SuccOrders(E) ==
    IF \E b \in Blocks : Cardinality({c \in Blocks : <<b, c>> \in E}) > 1
    THEN Orders ELSE {"ascending"}

\* sorted(blocks, key=attrgetter("startEA")) of a list of blocks.
SortedByStart(blocks) == SortedSeq({blocks[i] : i \in 1 .. Len(blocks)})

\* The function graphs the model is run on (block 0 is the entry block).
GDiamond == {<<0, 1>>, <<0, 2>>, <<1, 3>>, <<2, 3>>}
GMerge == {<<0, 1>>, <<0, 2>>, <<1, 2>>, <<2, 3>>}
GFull == {<<0, 1>>, <<0, 2>>, <<0, 3>>, <<1, 2>>, <<1, 3>>, <<2, 3>>}
GChain == {<<0, 1>>, <<1, 2>>, <<2, 3>>}
GLoops == {<<0, 1>>, <<1, 1>>, <<1, 2>>, <<2, 1>>, <<2, 3>>, <<1, 3>>}
GEntryLoop == {<<0, 1>>, <<1, 0>>, <<1, 2>>, <<0, 3>>}
GOrphan == {<<0, 2>>, <<1, 2>>, <<2, 3>>}
GBackOnly == {<<0, 1>>, <<1, 3>>, <<3, 2>>}
Graphs == {GDiamond, GMerge, GFull, GChain, GLoops, GEntryLoop, GOrphan,
           GBackOnly}

\* FlowChart.find_block(ea): the first block, in block order, containing ea;
\* NumBlocks stands for Python's None (no block contains ea).
RECURSIVE FindFrom(_, _)
FindFrom(i, ea) ==
    IF i >= NumBlocks THEN NumBlocks
    ELSE IF StartEA(i) <= ea /\ ea < EndEA(i) THEN i
    ELSE FindFrom(i + 1, ea)

\* find_block finding an address only at the start of its block.
FindBlockByStart(ea) ==
    IF \E b \in Blocks : StartEA(b) = ea
    THEN CHOOSE b \in Blocks : StartEA(b) = ea
    ELSE NumBlocks

find_block(ea) == FindFrom(0, ea)

---------------------------------------------------------------------------
(* PathBlock objects.                                                      *)

\* PathBlock.__init__(bb, prev): no context yet (_context = None,
\* _context_ea = None).  A context is the list of instruction addresses the
\* processor step was applied to, in order; ctx_ea = -1 stands for None.
PathBlock(bb, prev) ==
    [bb |-> bb, prev |-> prev, has_ctx |-> FALSE, ctx |-> << >>, ctx_ea |-> -1]

\* The blocks of the chain of node n, from the root to n.
RECURSIVE Chain(_, _)
Chain(ns, n) ==
    IF n = 0 THEN << >> ELSE Append(Chain(ns, ns[n].prev), ns[n].bb)

---------------------------------------------------------------------------
(* FlowChart._build_path: a generator, suspended at its yields.            *)
(* A generator is a stack of frames, one per nested _build_path call, the   *)
(* outermost first, and the visited set they share.  A frame is suspended   *)
(* at "leaf" (line 464), "build" (line 478, at parent number idx) or        *)
(* "cache" (line 483, after idx entries of the cached list).                *)

Frame(b) == [blk |-> b, mode |-> "new", idx |-> 0]

NewGen(b) == [root |-> b, status |-> "new", frames |-> << >>, visited |-> {}]

\* Line 459: `if not len(path_cache)` is false, the cached list is used.
CacheHit(cached) == Len(cached) # 0

\* SkipParent without the comparison of start addresses: a parent reached
\* over a back-edge is followed.
SkipParentVisitedOnly(blk, cb, visited) == blk \in visited

\* Line 472: the parent is skipped (visited, or it starts after cur_block).
SkipParent(blk, cb, visited) ==
    blk \in visited \/ StartEA(blk) > StartEA(cb)

\* The first parent number after idx that line 472 does not skip (0: none).
NextParent(E, cb, idx, visited) ==
    LET ps == Preds(E, cb)
        ok == {i \in (idx + 1) .. Len(ps) : ~SkipParent(ps[i], cb, visited)}
    IN IF ok = {} THEN 0 ELSE CHOOSE i \in ok : \A j \in ok : i <= j

SetFrame(frames, d, mode, idx) ==
    [frames EXCEPT ![d] = [@ EXCEPT !.mode = mode, !.idx = idx]]

Pop(frames) == SubSeq(frames, 1, Len(frames) - 1)

\* One resumption of the generator: run until the outermost frame yields
\* (sig = "yield", val = the PathBlock) or returns (sig = "stop").
\*   enter:  the innermost frame is a fresh call, run it from line 449
\*   loop:   frame d goes on with its `for block in cb_parents` loop
\*   resume: the innermost frame is resumed after its yield
\*   val:    frame d receives val from the generator it iterates
Step(c, E, cache) ==
    LET d == c.d
        b == c.frames[d].blk
        returned == [c EXCEPT !.frames = Pop(c.frames),
                              !.visited = c.visited \ {b},
                              !.sig = IF d = 1 THEN "stop" ELSE "loop",
                              !.d = d - 1]
    IN
    CASE c.sig = "enter" ->
           LET vis == c.visited \cup {b} IN
           IF ~CacheHit(cache[b]) THEN
               IF Len(Preds(E, b)) = 0 THEN
                   [c EXCEPT !.visited = vis,
                             !.frames = SetFrame(c.frames, d, "leaf", 0),
                             !.nodes = Append(c.nodes, PathBlock(b, 0)),
                             !.sig = "val", !.d = d - 1,
                             !.val = Len(c.nodes) + 1]
               ELSE
                   [c EXCEPT !.visited = vis,
                             !.frames = SetFrame(c.frames, d, "build", 0),
                             !.sig = "loop"]
           ELSE
               [c EXCEPT !.visited = vis,
                         !.frames = SetFrame(c.frames, d, "cache", 1),
                         !.sig = "val", !.d = d - 1,
                         !.val = cache[b][1]]
      [] c.sig = "loop" ->
           LET i == NextParent(E, b, c.frames[d].idx, c.visited) IN
           IF i # 0 THEN
               [c EXCEPT !.frames = Append(SetFrame(c.frames, d, "build", i),
                                           Frame(Preds(E, b)[i])),
                         !.sig = "enter", !.d = d + 1]
           ELSE returned
      [] c.sig = "resume" ->
           IF c.frames[d].mode = "cache" /\ c.frames[d].idx < Len(cache[b]) THEN
               [c EXCEPT !.frames = SetFrame(c.frames, d, "cache",
                                             c.frames[d].idx + 1),
                         !.sig = "val", !.d = d - 1,
                         !.val = cache[b][c.frames[d].idx + 1]]
           ELSE returned
      [] c.sig = "val" ->
           IF d = 0 THEN [c EXCEPT !.sig = "yield"]
           ELSE [c EXCEPT !.nodes = Append(c.nodes, PathBlock(b, c.val)),
                          !.d = d - 1,
                          !.val = Len(c.nodes) + 1]
      [] OTHER -> c

RECURSIVE Drive(_, _, _)
Drive(c, E, cache) ==
    IF c.sig \in {"yield", "stop"} THEN c ELSE Drive(Step(c, E, cache), E, cache)

\* The configuration a generator is resumed in: a fresh generator runs its
\* body from the top, a suspended one goes on after its innermost yield.
StartCfg(g, ns) ==
    IF g.status = "new"
    THEN [frames |-> <<Frame(g.root)>>, visited |-> {},
          nodes |-> ns, sig |-> "enter", d |-> 1, val |-> 0]
    ELSE [frames |-> g.frames, visited |-> g.visited,
          nodes |-> ns, sig |-> "resume", d |-> Len(g.frames), val |-> 0]

\* The generator, the PathBlock arena and the value yielded (0:
\* StopIteration) once the run r of the generator has ended.
GenResult(g, r) ==
    [gen |-> [g EXCEPT !.status = IF r.sig = "yield" THEN "suspended" ELSE "done",
                       !.frames = r.frames, !.visited = r.visited],
     nodes |-> r.nodes,
     val |-> IF r.sig = "yield" THEN r.val ELSE 0]

\* next(generator) for a _build_path generator g; an exhausted generator
\* raises StopIteration without running any code.
NextOfGen(g, ns, E, cache) ==
    IF g.status = "done" THEN [gen |-> g, nodes |-> ns, val |-> 0]
    ELSE GenResult(g, Drive(StartCfg(g, ns), E, cache))

---------------------------------------------------------------------------
(* FlowChart.get_paths: a generator object per call.                       *)
(* phase "new": created, body not yet run; "cached": suspended at line 511  *)
(* after idx cached paths; "gen": suspended at line 522; "done": returned;  *)
(* "raised": ended by an exception.  `out` lists what it has yielded.       *)

\* CacheAppend putting the new path in front of the cached list.
CacheAppendFront(cache, ns, n) ==
    [cache EXCEPT ![ns[n].bb] = <<n>> \o @]

\* Line 521: self._path_cache[path.bb.startEA].append(path).
CacheAppend(cache, ns, n) ==
    [cache EXCEPT ![ns[n].bb] = Append(@, n)]

\* LookupGen never finding a stored generator: every call makes a builder.
LookupGenAlwaysNew(gcache, gs, b) == 0

\* LookupGen taking an exhausted generator for a missing one, so that the
\* builder is started again.
LookupGenRestart(gcache, gs, b) ==
    IF gcache[b] # 0 /\ gs[gcache[b]].status = "done" THEN 0 ELSE gcache[b]

\* Lines 514-515: the stored generator of block b, 0 when one is to be made.
LookupGen(gcache, gs, b) == gcache[b]

\* Lines 520-522: the body of `for path in path_generator` for the result r
\* of next(path_generator).
Consume(call, st, r) ==
    IF r.val = 0
    THEN [call |-> [call EXCEPT !.phase = "done"],
          st |-> [st EXCEPT !.gens = [@ EXCEPT ![call.gen] = r.gen],
                            !.nodes = r.nodes]]
    ELSE [call |-> [call EXCEPT !.phase = "gen", !.out = Append(@, r.val)],
          st |-> [st EXCEPT !.gens = [@ EXCEPT ![call.gen] = r.gen],
                            !.nodes = r.nodes,
                            !.path_cache = CacheAppend(st.path_cache,
                                                       r.nodes, r.val)]]

\* Lines 520-522: one step of `for path in path_generator`.
GenStep(call, st, E) ==
    Consume(call, st, NextOfGen(st.gens[call.gen], st.nodes, E, st.path_cache))

\* Lines 514-517: take the block's generator from _gen_cache or create it.
FetchGen(call, st, E) ==
    LET g == LookupGen(st.gen_cache, st.gens, call.blk) IN
    IF g # 0 THEN GenStep([call EXCEPT !.gen = g], st, E)
    ELSE LET id == Len(st.gens) + 1 IN
         GenStep([call EXCEPT !.gen = id],
                 [st EXCEPT !.gens = Append(@, NewGen(call.blk)),
                            !.gen_cache = [@ EXCEPT ![call.blk] = id]], E)

\* Lines 510-511: `for path in cached_paths` over the live cached list.
CachedStep(call, st, E) ==
    IF call.idx < Len(st.path_cache[call.blk])
    THEN [call |-> [call EXCEPT !.phase = "cached", !.idx = @ + 1,
                                !.out = Append(@, st.path_cache[call.blk][call.idx + 1])],
          st |-> st]
    ELSE FetchGen(call, st, E)

\* next() on a get_paths generator object.
GetPathsNext(call, st, E) ==
    CASE call.phase = "new" ->
           LET b == find_block(call.ea) IN
           IF b = NumBlocks
           THEN [call |-> [call EXCEPT !.phase = "raised"], st |-> st]
           ELSE CachedStep([call EXCEPT !.blk = b], st, E)
      [] call.phase = "cached" -> CachedStep(call, st, E)
      [] call.phase = "gen" -> GenStep(call, st, E)
      [] OTHER -> [call |-> call, st |-> st]

---------------------------------------------------------------------------
(* PathBlock.cpu_context.                                                  *)
(* processor.execute(context, ip) is opaque: a context is the list of the   *)
(* instruction addresses executed on it, in order, and ProcessorContext()   *)
(* is the empty list.  Every context object is taken to be true in a        *)
(* boolean test (line 66), as a Python object is unless its class says      *)
(* otherwise.  ea = -1 stands for the default ea=None.                      *)

\* OutOfBlock taking the block's end address for an address of the block.
OutOfBlockEndIncluded(bb, ea) ==
    ea # -1 /\ ~(StartEA(bb) <= ea /\ ea <= EndEA(bb))

\* Line 52: the address check fails and KeyError is raised.
OutOfBlock(bb, ea) == ea # -1 /\ ~(StartEA(bb) <= ea /\ ea < EndEA(bb))

\* StopAddress stopping at the requested address itself.
StopAddressExclusive(bb, ea) == IF ea = -1 THEN EndEA(bb) ELSE ea

\* Lines 57-60: the address to stop computing at.
StopAddress(bb, ea) == IF ea = -1 THEN EndEA(bb) ELSE NextHead(ea)

\* MustReinit keeping a cached context that goes past the requested end.
MustReinitOnlyMissing(node, end) == ~node.has_ctx

\* MustReinit making the context anew on every request.
MustReinitAlways(node, end) == TRUE

\* Line 66: the context is created anew.
MustReinit(node, end) == ~node.has_ctx \/ node.ctx_ea > end

\* Line 77 for every ip of lines 76: the calls processor.execute(ctx, ip)
\* made on node n's context.
Executions(n, from, end) ==
    [i \in 1 .. Len(Heads(from, end)) |-> [node |-> n, ip |-> Heads(from, end)[i]]]

\* Lines 73-81: node n's context is ctx0, filled to `from`; fill it to `end`.
\* r carries the PathBlock arena and the executions made so far.
Fill(r, n, ctx0, from, end) ==
    [nodes |-> [r.nodes EXCEPT ![n] = [@ EXCEPT !.has_ctx = TRUE,
                                               !.ctx = ctx0 \o Heads(from, end),
                                               !.ctx_ea = end]],
     execs |-> r.execs \o Executions(n, from, end),
     ret |-> ctx0 \o Heads(from, end)]

\* Reinit starting from a default context whatever the parent's context is.
ReinitFresh(r, n, end) == Fill(r, n, << >>, StartEA(r.nodes[n].bb), end)

\* Lines 68-73: the baseline r (the parent's returned copy, or a default
\* context) becomes node n's context, filled to the start of its block.
Reinit(r, n, end) == Fill(r, n, r.ret, StartEA(r.nodes[n].bb), end)

\* cpu_context(ea) on node n with a valid ea: the arena afterwards, the
\* executions made (in this node and, through line 69, in its ancestors)
\* and the returned deep copy.
RECURSIVE Context(_, _, _)
Context(ns, n, ea) ==
    IF ns[n].ctx_ea = StopAddress(ns[n].bb, ea)
    THEN [nodes |-> ns, execs |-> << >>, ret |-> ns[n].ctx]
    ELSE IF MustReinit(ns[n], StopAddress(ns[n].bb, ea))
    THEN Reinit(IF ns[n].prev # 0 THEN Context(ns, ns[n].prev, -1)
                ELSE [nodes |-> ns, execs |-> << >>, ret |-> << >>],
                n, StopAddress(ns[n].bb, ea))
    ELSE Fill([nodes |-> ns, execs |-> << >>, ret |-> << >>], n,
              ns[n].ctx, ns[n].ctx_ea, StopAddress(ns[n].bb, ea))

---------------------------------------------------------------------------
(* The state machine.                                                      *)

State == [nodes |-> nodes, path_cache |-> path_cache,
          gen_cache |-> gen_cache, gens |-> gens]

NoLast == [op |-> "none", node |-> 0, ea |-> -1, end |-> -1,
           before |-> PathBlock(0, 0), execs |-> << >>, ret |-> << >>]

\* No context object exists, no traversal, path walk or conversion runs.
NoCopies == heap = << >> /\ ctx_ref = << >> /\ held = {} /\ faults = 0

NoTrav == [kind |-> "none", start |-> -1, heads |-> FALSE, status |-> "none",
           non_visited |-> << >>, visited |-> {}, block_found |-> FALSE,
           first_block |-> TRUE, pending |-> << >>, out |-> << >>,
           hout |-> << >>]

NoWalk == [ea |-> -1, status |-> "none", frames |-> << >>, visited |-> {},
           cur_path |-> << >>, out |-> << >>]

NoConv == [op |-> "none", be |-> FALSE, width |-> 0, value |-> << >>,
           packed |-> << >>, unpacked |-> << >>]

NoTools == found = << >> /\ trav = NoTrav /\ walk = NoWalk /\ conv = NoConv

\* No helper has been called, no Reporter made, nothing searched.
NoCalc == [fn |-> "none", args |-> << >>, raised |-> "none", result |-> << >>]
NoReporter == [made |-> FALSE]
NoSearch == [status |-> "none"]
NoUtils == calc = NoCalc /\ reporter = NoReporter /\ search = NoSearch

\* FlowChart.__init__: empty caches.
NewFlowChart ==
    /\ nodes = << >>
    /\ path_cache = [b \in Blocks |-> << >>]
    /\ gen_cache = [b \in Blocks |-> 0]
    /\ gens = << >>
    /\ calls = << >>
    /\ last = NoLast
    /\ NoCopies
    /\ NoTools
    /\ NoUtils

\* get_paths reads preds() only: the model runs with both orders of it.
InitResume ==
    /\ edges \in Graphs
    /\ listing \in {Listing(p, "ascending") : p \in PredOrders(edges)}
    /\ NewFlowChart

\* The same without the full graph, which has the most paths (SpecResume
\* and SpecBoth run it, with both orders).
Init ==
    /\ edges \in Graphs \ {GFull}
    /\ listing \in {Listing(p, "ascending") : p \in PredOrders(edges)}
    /\ NewFlowChart

\* A get_paths generator object whose body has not run yet.  `snap`
\* observes, for the claims, how far the earlier objects had been consumed
\* when this one was created; the code does not read it.
NewCall(ea, snap) ==
    [ea |-> ea, blk |-> NumBlocks, phase |-> "new", idx |-> 0, gen |-> 0,
     out |-> << >>, snap |-> snap]

Progress(call) == [n |-> Len(call.out), phase |-> call.phase]

\* The caller evaluates fc.get_paths(ea): a new generator object (the
\* caller creates at most max of them).
CallUpTo(ea, max) ==
    /\ Len(calls) < max
    /\ calls' = Append(calls,
                       NewCall(ea, [i \in 1 .. Len(calls) |-> Progress(calls[i])]))
    /\ UNCHANGED <<edges, listing, nodes, path_cache, gen_cache, gens, last>>
    /\ UNCHANGED <<copyVars, utilVars, toolVars>>

Call(ea) == CallUpTo(ea, MaxCalls)

\* The state after a step of a get_paths object with result r.
Commit(c, r) ==
    /\ calls' = [calls EXCEPT ![c] = r.call]
    /\ nodes' = r.st.nodes
    /\ path_cache' = r.st.path_cache
    /\ gen_cache' = r.st.gen_cache
    /\ gens' = r.st.gens

\* next() on the get_paths object c, which has not ended.
AdvancePaths(c) ==
    /\ calls[c].phase \in {"new", "cached", "gen"}
    /\ Commit(c, GetPathsNext(calls[c], State, edges))
    /\ UNCHANGED <<edges, listing, utilVars, toolVars>>

\* The caller takes the next path from one of its get_paths objects.
Advance(c) == AdvancePaths(c) /\ UNCHANGED <<last, copyVars>>

\* The addresses the caller asks paths for: the last address of every block
\* and the address after the function, which lies in no block.
QueryAddrs == {EndEA(b) - 1 : b \in Blocks} \cup {FuncEnd}

NextPaths ==
    \/ \E ea \in QueryAddrs : Call(ea)
    \/ \E c \in 1 .. Len(calls) : Advance(c)

Spec == Init /\ [][NextPaths]_vars

\* The same with one more get_paths object: a query of another block before
\* a first and a second query of one block.
CallMore(ea) == CallUpTo(ea, MaxCalls + 1)

NextResume ==
    \/ \E ea \in QueryAddrs : CallMore(ea)
    \/ \E c \in 1 .. Len(calls) : Advance(c)

SpecResume == InitResume /\ [][NextResume]_vars

---------------------------------------------------------------------------
(* The contexts of the paths of a graph while its paths are enumerated.    *)
(* The caller runs the loop                                                 *)
(*     for b in <the blocks first, first + 1, ...>:                         *)
(*         for path in fc.get_paths(b.startEA): ...                         *)
(* on a new FlowChart, from the entry block or from a block in the middle,  *)
(* and asks the PathBlocks it has been given for contexts between any two   *)
(* steps of the loop, with the generator of get_paths suspended at its      *)
(* yield.  The paths of a later block take their parents from the path      *)
(* cache of an earlier one (shared parents) when that block was enumerated, *)
(* and are chains of their own when it was not.                             *)

\* The block the loop that starts at block `first` comes to next.
NextBlockOfLoop(first) ==
    IF calls = << >> THEN first ELSE find_block(calls[Len(calls)].ea) + 1

\* The loop evaluates fc.get_paths(b.startEA) for its next block: the
\* get_paths object of the block before has ended.
GetPathsOfNextBlock(first) ==
    /\ calls # << >> => calls[Len(calls)].phase = "done"
    /\ NextBlockOfLoop(first) < NumBlocks
    /\ CallUpTo(StartEA(NextBlockOfLoop(first)), NumBlocks)

\* The loop takes the next path of its block (or comes to the end of the
\* paths of the block).
NextPath ==
    /\ calls # << >>
    /\ AdvancePaths(Len(calls))
    /\ last' = NoLast

\* cpu_context does not read preds(): their order only numbers the
\* PathBlocks of the enumeration differently.  The diamond is run with both
\* orders, the other graphs with the ascending one.
CtxOrders(E) == IF E = GDiamond THEN Orders ELSE {"ascending"}

\* The blocks the loop starts at: the entry block and, on the chain and on
\* the diamond with its parents listed in ascending order, a block in the
\* middle too.
LoopStarts(E) ==
    IF E = GMerge \/ listing.preds = "descending" THEN {0}
    ELSE {0, NumBlocks - 2}

InitCtx ==
    /\ edges \in {GChain, GDiamond, GMerge}
    /\ listing \in {Listing(p, "ascending") : p \in CtxOrders(edges)}
    /\ NewFlowChart

\* The result r of the request, recorded with the arena before it.
CommitCtx(n, ea, r) ==
    /\ nodes' = r.nodes
    /\ last' = [op |-> "ctx", node |-> n, ea |-> ea,
                end |-> StopAddress(nodes[n].bb, ea), before |-> nodes[n],
                execs |-> r.execs, ret |-> r.ret]

\* The caller evaluates path.cpu_context(ea) on a PathBlock it holds.
CpuContext(n, ea) ==
    /\ ~OutOfBlock(nodes[n].bb, ea)
    /\ CommitCtx(n, ea, Context(nodes, n, ea))
    /\ UNCHANGED <<edges, listing, path_cache, gen_cache, gens, calls>>
    /\ UNCHANGED <<copyVars, utilVars, toolVars>>

\* The same with an address outside the PathBlock's block: KeyError.
CpuContextRaises(n, ea) ==
    /\ OutOfBlock(nodes[n].bb, ea)
    /\ last' = [op |-> "raise", node |-> n, ea |-> ea, end |-> -1,
                before |-> nodes[n], execs |-> << >>, ret |-> << >>]
    /\ UNCHANGED <<edges, listing, nodes, path_cache, gen_cache, gens, calls>>
    /\ UNCHANGED <<copyVars, utilVars, toolVars>>

\* The addresses of block bb, and the two addresses next to it.
InBlock(bb) == StartEA(bb) .. (EndEA(bb) - 1)
NextToBlock(bb) == {StartEA(bb) - 1, EndEA(bb)}

\* The addresses the caller passes to cpu_context of a PathBlock of block bb.
RequestAddrs(bb) == {-1} \cup InBlock(bb) \cup NextToBlock(bb)

NextCtx ==
    \/ \E first \in LoopStarts(edges) : GetPathsOfNextBlock(first)
    \/ NextPath /\ UNCHANGED copyVars
    \/ \E n \in 1 .. Len(nodes) :
          \E ea \in RequestAddrs(nodes[n].bb) : CpuContext(n, ea)
    \/ \E n \in 1 .. Len(nodes) :
          \E ea \in RequestAddrs(nodes[n].bb) : CpuContextRaises(n, ea)

SpecCtx == InitCtx /\ [][NextCtx]_vars

---------------------------------------------------------------------------
(* PathBlock.cpu_context when processor.execute raises.                     *)
(* A request is run with a number of processor steps that succeed; the      *)
(* step after them raises and leaves the context it was called on as it     *)
(* was.  The exception leaves cpu_context at line 77, and at line 69 in     *)
(* every descendant whose request had called it.                            *)

\* Number of processor steps that raise.
MaxFaults == 1

\* Lines 76-79 with r.left steps to succeed: node n's context is ctx0,
\* filled to `from`; the loop ends at `end`, or at the step that raises,
\* with _context_ea still `from`.
FillUntilRaise(r, n, ctx0, from, end) ==
    IF Len(Heads(from, end)) <= r.left
    THEN [nodes |-> [r.nodes EXCEPT ![n] = [@ EXCEPT !.has_ctx = TRUE,
                                                   !.ctx = ctx0 \o Heads(from, end),
                                                   !.ctx_ea = end]],
          execs |-> r.execs \o Executions(n, from, end),
          ret |-> ctx0 \o Heads(from, end),
          raised |-> FALSE,
          left |-> r.left - Len(Heads(from, end))]
    ELSE [nodes |-> [r.nodes EXCEPT ![n] =
                        [@ EXCEPT !.has_ctx = TRUE,
                                  !.ctx = ctx0 \o SubSeq(Heads(from, end), 1, r.left),
                                  !.ctx_ea = from]],
          execs |-> r.execs \o SubSeq(Executions(n, from, end), 1, r.left),
          ret |-> << >>,
          raised |-> TRUE,
          left |-> 0]

\* Lines 68-73 after the parent's request r: when that raised, line 69 is
\* left before the assignment; otherwise the baseline becomes the context.
ReinitUntilRaise(r, n, end) ==
    IF r.raised THEN r
    ELSE FillUntilRaise(r, n, r.ret, StartEA(r.nodes[n].bb), end)

\* The start of a request: nothing executed, `left` steps to succeed.
Unraised(ns, left) ==
    [nodes |-> ns, execs |-> << >>, ret |-> << >>, raised |-> FALSE,
     left |-> left]

\* cpu_context(ea) on node n with a valid ea, `left` steps succeeding.
RECURSIVE ContextUntilRaise(_, _, _, _)
ContextUntilRaise(ns, n, ea, left) ==
    IF ns[n].ctx_ea = StopAddress(ns[n].bb, ea)
    THEN [Unraised(ns, left) EXCEPT !.ret = ns[n].ctx]
    ELSE IF MustReinit(ns[n], StopAddress(ns[n].bb, ea))
    THEN ReinitUntilRaise(IF ns[n].prev # 0
                          THEN ContextUntilRaise(ns, ns[n].prev, -1, left)
                          ELSE Unraised(ns, left),
                          n, StopAddress(ns[n].bb, ea))
    ELSE FillUntilRaise(Unraised(ns, left), n, ns[n].ctx, ns[n].ctx_ea,
                        StopAddress(ns[n].bb, ea))

\* A chain and a diamond, their paths enumerated from the entry block.
InitFault ==
    /\ edges \in {GChain, GDiamond}
    /\ listing \in {Listing(p, "ascending") : p \in PredOrders(edges)}
    /\ NewFlowChart

\* The request ended by the exception of the processor step, with result r.
CommitFault(n, ea, r) ==
    /\ r.raised
    /\ nodes' = r.nodes
    /\ last' = [op |-> "fault", node |-> n, ea |-> ea,
                end |-> StopAddress(nodes[n].bb, ea), before |-> nodes[n],
                execs |-> r.execs, ret |-> << >>]

\* The caller evaluates path.cpu_context(ea) and the processor step raises
\* after `left` steps of the request.
CpuContextFault(n, ea, left) ==
    /\ ~OutOfBlock(nodes[n].bb, ea)
    /\ faults < MaxFaults
    /\ CommitFault(n, ea, ContextUntilRaise(nodes, n, ea, left))
    /\ faults' = faults + 1
    /\ UNCHANGED <<edges, listing, path_cache, gen_cache, gens, calls>>
    /\ UNCHANGED <<heap, ctx_ref, held, utilVars, toolVars>>

\* The largest number of processor steps one request makes.
MaxSteps == NumBlocks * BlockSize

NextFault ==
    \/ GetPathsOfNextBlock(0)
    \/ NextPath /\ UNCHANGED copyVars
    \/ \E n \in 1 .. Len(nodes) :
          \E ea \in {-1} \cup InBlock(nodes[n].bb) : CpuContext(n, ea)
    \/ \E n \in 1 .. Len(nodes) :
          \E ea \in {-1} \cup InBlock(nodes[n].bb) :
             \E left \in 0 .. (MaxSteps - 1) : CpuContextFault(n, ea, left)

SpecFault == InitFault /\ [][NextFault]_vars

---------------------------------------------------------------------------
(* PathBlock.cpu_context with the contexts as objects.                     *)
(* A ProcessorContext is an object of `heap`; processor.execute changes it  *)
(* in place and deepcopy makes a new object.  r carries the heap, the       *)
(* _context reference of every PathBlock and the object returned.           *)

\* Number of cpu_context requests the caller makes.
MaxHeld == 2

\* A new context object with the contents c.
Alloc(r, c) ==
    [heap |-> Append(r.heap, c), ref |-> r.ref, ret |-> Len(r.heap) + 1]

\* DeepCopy handing out the object itself.
DeepCopyAlias(r, id) == [r EXCEPT !.ret = id]

\* Line 81: deepcopy(self._context).
DeepCopy(r, id) == Alloc(r, r.heap[id])

\* Lines 76-77: processor.execute(self._context, ip) for the heads of
\* [from, end), on the object node n refers to.
ExecuteAll(r, n, from, end) ==
    [r EXCEPT !.heap = [@ EXCEPT ![r.ref[n]] = @ \o Heads(from, end)]]

\* Lines 69 and 71: self._context = <the object just obtained>.
Adopt(r, n) == [r EXCEPT !.ref = [@ EXCEPT ![n] = r.ret]]

\* Line 81 on node n.
Return(r, n) == DeepCopy(r, r.ref[n])

\* cpu_context(ea) on node n with a valid ea; ns is the PathBlock arena
\* before the request (bb, prev, _context_ea and whether _context is set).
RECURSIVE ContextRef(_, _, _, _)
ContextRef(r, ns, n, ea) ==
    IF ns[n].ctx_ea = StopAddress(ns[n].bb, ea) THEN Return(r, n)
    ELSE IF MustReinit(ns[n], StopAddress(ns[n].bb, ea))
    THEN Return(ExecuteAll(Adopt(IF ns[n].prev # 0
                                 THEN ContextRef(r, ns, ns[n].prev, -1)
                                 ELSE Alloc(r, << >>), n),
                           n, StartEA(ns[n].bb), StopAddress(ns[n].bb, ea)), n)
    ELSE Return(ExecuteAll(r, n, ns[n].ctx_ea, StopAddress(ns[n].bb, ea)), n)

\* A chain and a diamond.
InitCopy ==
    /\ edges \in {GChain, GDiamond}
    /\ listing \in {Listing(p, "ascending") : p \in PredOrders(edges)}
    /\ NewFlowChart

\* The loop takes the next path of its block; the PathBlocks made for it
\* have no context object yet (PathBlock.__init__: _context = None).
NextPathCopy ==
    /\ NextPath
    /\ ctx_ref' = [n \in 1 .. Len(nodes') |->
                      IF n <= Len(ctx_ref) THEN ctx_ref[n] ELSE 0]
    /\ UNCHANGED <<heap, held, faults>>

\* The request's result r on the objects, recorded with its result v on the
\* PathBlock fields; last.ret is the contents of the object returned.
CommitCopy(n, ea, v, r) ==
    /\ nodes' = v.nodes
    /\ heap' = r.heap
    /\ ctx_ref' = r.ref
    /\ held' = held \cup {r.ret}
    /\ last' = [op |-> "ctx", node |-> n, ea |-> ea,
                end |-> StopAddress(nodes[n].bb, ea), before |-> nodes[n],
                execs |-> v.execs, ret |-> r.heap[r.ret]]

\* The caller evaluates path.cpu_context(ea) and keeps the returned object.
CopyRequest(n, ea) ==
    /\ ~OutOfBlock(nodes[n].bb, ea)
    /\ Cardinality(held) < MaxHeld
    /\ CommitCopy(n, ea, Context(nodes, n, ea),
                  ContextRef([heap |-> heap, ref |-> ctx_ref, ret |-> 0],
                             nodes, n, ea))
    /\ UNCHANGED <<edges, listing, path_cache, gen_cache, gens, calls,
                   toolVars, utilVars, faults>>

\* The caller changes a context object it was handed (it runs one more
\* processor step, written -1, on it).
Mutate(h) ==
    /\ -1 \notin {heap[h][i] : i \in 1 .. Len(heap[h])}
    /\ heap' = [heap EXCEPT ![h] = Append(@, -1)]
    /\ UNCHANGED <<edges, listing, nodes, path_cache, gen_cache, gens, calls,
                   last, ctx_ref, held, faults, toolVars, utilVars>>

NextCopy ==
    \/ GetPathsOfNextBlock(0)
    \/ NextPathCopy
    \/ \E n \in 1 .. Len(nodes) :
          \E ea \in {-1} \cup InBlock(nodes[n].bb) : CopyRequest(n, ea)
    \/ \E h \in held : Mutate(h)

SpecCopy == InitCopy /\ [][NextCopy]_vars

---------------------------------------------------------------------------
(* FlowChart.find_block called again and again.                            *)

\* The addresses the caller looks up: the first and the last address of
\* every block, the address before the function and the one after it.
FindAddrs ==
    {StartEA(b) : b \in Blocks} \cup {EndEA(b) - 1 : b \in Blocks}
        \cup {FuncStart - 1, FuncEnd}

InitFind ==
    /\ edges \in Graphs
    /\ listing = BlockOrder
    /\ nodes = << >>
    /\ path_cache = [b \in Blocks |-> << >>]
    /\ gen_cache = [b \in Blocks |-> 0]
    /\ gens = << >>
    /\ calls = << >>
    /\ last = NoLast
    /\ NoCopies
    /\ found = [ea \in FindAddrs |-> {}]
    /\ trav = NoTrav /\ walk = NoWalk /\ conv = NoConv
    /\ NoUtils

\* The caller evaluates fc.find_block(ea); the result joins the results seen
\* for ea.
FindBlock(ea) ==
    /\ found' = [found EXCEPT ![ea] = @ \cup {find_block(ea)}]
    /\ UNCHANGED <<edges, listing, nodes, path_cache, gen_cache, gens, calls,
                   last, copyVars, utilVars, trav, walk, conv>>

NextFind == \E ea \in FindAddrs : FindBlock(ea)

SpecFind == InitFind /\ [][NextFind]_vars

---------------------------------------------------------------------------
(* The traversals: FlowChart._dfs, _dfs_reverse, _bfs, _bfs_reverse behind  *)
(* dfs_iter_blocks / bfs_iter_blocks, and dfs_iter_heads / bfs_iter_heads.  *)
(* `trav` is the generator object: its kind, its arguments and its local    *)
(* variables; start = -1 stands for startEA=None.                           *)

Forward == {"dfs", "bfs"}
Backward == {"dfs_reverse", "bfs_reverse"}

\* `if startEA:` is false for None and for the address 0.
IsTrue(start) == start # -1 /\ start # 0

\* Contains finding an address only at the start of its block.
ContainsStartOnly(b, ea) == StartEA(b) = ea

\* cur_block.startEA <= startEA < cur_block.endEA
Contains(b, ea) == StartEA(b) <= ea /\ ea < EndEA(b)

\* s[-1:]
LastSlice(s) == IF s = << >> THEN << >> ELSE <<s[Len(s)]>>

\* SortedSuccs keeping the first child only.
SortedSuccsFirstOnly(E, b) ==
    IF Succs(E, b) = << >> THEN << >>
    ELSE <<Head(SortedByStart(Succs(E, b)))>>

\* Lines 179 and 284: sorted(cur_block.succs(), key=attrgetter("startEA")).
SortedSuccs(E, b) == SortedByStart(Succs(E, b))

\* Push putting the blocks at the back whatever the traversal.
PushBack(kind, non_visited, blocks) == non_visited \o blocks

\* Push putting the blocks at the front whatever the traversal.
PushFront(kind, non_visited, blocks) == blocks \o non_visited

\* Lines 179 and 284: the children go to the front (DFS) or the back (BFS)
\* of non_visited; lines 203 and 307 do the same with the parents.
Push(kind, non_visited, blocks) ==
    IF kind \in {"dfs", "dfs_reverse"} THEN blocks \o non_visited
    ELSE non_visited \o blocks

\* Lines 175 and 280: cur_block.startEA in visited.
AlreadyVisited(visited, cur) == cur \in visited

\* Lines 173-184 and 278-289: the while loop of _dfs / _bfs up to its next
\* yield or its end.
RECURSIVE ForwardLoop(_, _)

\* Lines 183-184 and 288-289.
ForwardYield(t, cur, E) ==
    IF t.block_found
    THEN [t EXCEPT !.out = Append(@, cur), !.status = "running"]
    ELSE ForwardLoop(t, E)

\* Lines 175-181 and 280-286, for the block just popped.
ForwardVisit(t, cur, E) ==
    IF AlreadyVisited(t.visited, cur) THEN ForwardLoop(t, E)
    ELSE ForwardYield([t EXCEPT !.visited = @ \cup {cur},
                                !.non_visited = Push(t.kind, @, SortedSuccs(E, cur)),
                                !.block_found = @ \/ Contains(cur, t.start)],
                      cur, E)

ForwardLoop(t, E) ==
    IF t.non_visited = << >> THEN [t EXCEPT !.status = "done"]
    ELSE ForwardVisit([t EXCEPT !.non_visited = Tail(@)], Head(t.non_visited), E)

\* Lines 170-172 and 275-277: the locals of _dfs / _bfs when its body starts.
ForwardStart(t) ==
    [t EXCEPT !.block_found = (t.start = -1), !.non_visited = <<0>>,
              !.visited = {}]

\* LowerPreds queueing every parent.
LowerPredsUnfiltered(E, cur) == Reverse(SortedByStart(Preds(E, cur)))

\* Lines 203-205 and 307-309: the parents that start before the current
\* block, by descending start address.
LowerPreds(E, cur) ==
    SelectSeq(Reverse(SortedByStart(Preds(E, cur))),
              LAMBDA p : StartEA(p) < StartEA(cur))

\* Lines 195-198 and 299-302: the first non_visited of a reverse traversal;
\* find_block's None is the block id NumBlocks.
ReverseStart(t) ==
    [t EXCEPT !.non_visited =
        IF IsTrue(t.start) THEN <<find_block(t.start)>>
        ELSE LastSlice(Reverse(SortedSeq(Blocks)))]

\* Lines 200-206 and 304-310: one round of the while loop of _dfs_reverse /
\* _bfs_reverse; cur_block.preds() on None raises AttributeError.
ReverseLoop(t, E) ==
    IF t.non_visited = << >> THEN [t EXCEPT !.status = "done"]
    ELSE IF Head(t.non_visited) = NumBlocks THEN [t EXCEPT !.status = "raised"]
    ELSE [t EXCEPT !.non_visited = Push(t.kind, Tail(@),
                                        LowerPreds(E, Head(t.non_visited))),
                   !.out = Append(@, Head(t.non_visited)),
                   !.status = "running"]

\* next() on the generator of dfs_iter_blocks / bfs_iter_blocks.
BlocksNext(t, E) ==
    IF t.kind \in Forward
    THEN ForwardLoop(IF t.status = "new" THEN ForwardStart(t) ELSE t, E)
    ELSE ReverseLoop(IF t.status = "new" THEN ReverseStart(t) ELSE t, E)

\* Lines 244-258 and 348-362: the heads of the block just yielded, in the
\* order they are yielded in.
BlockHeads(t, cur) ==
    IF t.kind \in Backward
    THEN Reverse(Heads(StartEA(cur),
                       IF IsTrue(t.start) /\ t.first_block THEN t.start
                       ELSE EndEA(cur)))
    ELSE Heads(IF IsTrue(t.start) /\ t.first_block THEN t.start
               ELSE StartEA(cur),
               EndEA(cur))

\* Lines 262-263 and 366-367: yield head.
YieldHead(t) ==
    [t EXCEPT !.hout = Append(@, Head(t.pending)), !.pending = Tail(@),
              !.status = "running"]

\* Lines 243-263 and 347-367: the loop over the blocks up to the next head.
RECURSIVE HeadsOfNextBlock(_, _)

HeadsTake(t, E) ==
    IF t.pending = << >> THEN HeadsOfNextBlock(BlocksNext(t, E), E)
    ELSE YieldHead(t)

HeadsOfNextBlock(t, E) ==
    IF t.status \in {"done", "raised"} THEN t
    ELSE HeadsTake([t EXCEPT !.pending = BlockHeads(t, t.out[Len(t.out)]),
                             !.first_block = FALSE], E)

\* next() on the generator of dfs_iter_heads / bfs_iter_heads.
HeadsNext(t, E) ==
    IF t.pending # << >> THEN YieldHead(t)
    ELSE HeadsOfNextBlock(BlocksNext(t, E), E)

TravNext(t, E) == IF t.heads THEN HeadsNext(t, E) ELSE BlocksNext(t, E)

\* The generator t taken to its end: for x in t: pass
RECURSIVE RunTrav(_, _)
RunTrav(t, E) ==
    IF t.status \in {"done", "raised"} THEN t ELSE RunTrav(TravNext(t, E), E)

\* A generator whose body has not run.
NewTrav(kind, start, heads) ==
    [NoTrav EXCEPT !.kind = kind, !.start = start, !.heads = heads,
                   !.status = "new"]

InitTrav ==
    /\ edges \in Graphs
    /\ listing \in {Listing(p, s) : p \in PredOrders(edges),
                                    s \in SuccOrders(edges)}
    /\ nodes = << >>
    /\ path_cache = [b \in Blocks |-> << >>]
    /\ gen_cache = [b \in Blocks |-> 0]
    /\ gens = << >>
    /\ calls = << >>
    /\ last = NoLast
    /\ NoCopies
    /\ NoTools
    /\ NoUtils

\* The caller evaluates fc.dfs_iter_blocks(start, reverse) or one of the
\* three other iterators: a generator whose body has not run.
StartTrav(kind, start, heads) ==
    /\ trav.status = "none"
    /\ trav' = NewTrav(kind, start, heads)
    /\ UNCHANGED <<edges, listing, nodes, path_cache, gen_cache, gens, calls,
                   last, copyVars, utilVars, found, walk, conv>>

\* The caller takes the next block or head from the generator.
StepTrav ==
    /\ trav.status \in {"new", "running"}
    /\ trav' = TravNext(trav, edges)
    /\ UNCHANGED <<edges, listing, nodes, path_cache, gen_cache, gens, calls,
                   last, copyVars, utilVars, found, walk, conv>>

NextTrav ==
    \/ \E kind \in Forward \cup Backward, start \in {-1} \cup Addrs,
          heads \in BOOLEAN : StartTrav(kind, start, heads)
    \/ StepTrav

SpecTrav == InitTrav /\ [][NextTrav]_vars

\* ENABLED <<StepTrav>>_vars: a step of the generator always changes it.
StepTravEnabled == trav.status \in {"new", "running"}

\* The same with a caller that goes on taking from the generator as long as
\* it gives something (for x in fc.dfs_iter_blocks(start, reverse): ...):
\* WF_vars(StepTrav), with ENABLED <<StepTrav>>_vars written out.
SpecTravLive ==
    SpecTrav /\ ([]<>(~StepTravEnabled) \/ []<><<StepTrav>>_vars)

---------------------------------------------------------------------------
(* FlowChart.paths_to_ea / FlowChart._paths_to_ea.                         *)
(* `walk` is the generator object of paths_to_ea(ea): the recursive         *)
(* _paths_to_ea generators below it are the frames (the block of the call   *)
(* and the position i of its loop over cur_block.succs()), and visited and  *)
(* cur_path are the set and the list all of them share.                     *)

\* Line 435: the address is not within the function, ValueError.
OutsideFunction(ea) == ~(FuncStart <= ea /\ ea < FuncEnd)

\* WalkLeave leaving the block in visited.
WalkLeaveKeepVisited(w) ==
    [w EXCEPT !.cur_path = SubSeq(@, 1, Len(@) - 1),
              !.frames = SubSeq(@, 1, Len(@) - 1)]

\* Lines 422-423: the call for the block on top returns.
WalkLeave(w) ==
    [w EXCEPT !.cur_path = SubSeq(@, 1, Len(@) - 1),
              !.visited = @ \ {w.frames[Len(w.frames)].blk},
              !.frames = SubSeq(@, 1, Len(@) - 1)]

\* The position of the loop of the call on top moves on by one.
WalkAdvance(w) ==
    [w EXCEPT !.frames = [@ EXCEPT ![Len(@)] = [@ EXCEPT !.i = @ + 1]]]

\* Lines 414-419: the loop over the successors of the call on top, up to the
\* next yield or the end of the outermost call.
RECURSIVE WalkLoop(_, _, _)

\* Lines 400-411: _paths_to_ea is entered for block b.
WalkEnter(w, b, E) ==
    IF Contains(b, w.ea)
    THEN [w EXCEPT !.visited = @ \cup {b},
                   !.cur_path = Append(@, b),
                   !.frames = Append(@, [blk |-> b, i |-> 1]),
                   !.out = Append(@, Append(w.cur_path, b)),
                   !.status = "running"]
    ELSE WalkLoop([w EXCEPT !.visited = @ \cup {b},
                            !.cur_path = Append(@, b),
                            !.frames = Append(@, [blk |-> b, i |-> 1])],
                  Succs(E, b), E)

\* Lines 415-419 for the successor s of the call on top.
WalkChild(w, s, E) ==
    IF s \in w.visited
    THEN WalkLoop(w, Succs(E, w.frames[Len(w.frames)].blk), E)
    ELSE WalkEnter(w, s, E)

\* succs is the successor list of the block of the call on top.
WalkLoop(w, succs, E) ==
    IF w.frames[Len(w.frames)].i > Len(succs)
    THEN IF Len(w.frames) = 1 THEN [WalkLeave(w) EXCEPT !.status = "done"]
         ELSE WalkLoop(WalkLeave(w),
                       Succs(E, w.frames[Len(w.frames) - 1].blk), E)
    ELSE WalkChild(WalkAdvance(w), succs[w.frames[Len(w.frames)].i], E)

\* next() on the generator of paths_to_ea(ea).
PathsToEaNext(w, E) ==
    IF w.status = "new"
    THEN IF OutsideFunction(w.ea) THEN [w EXCEPT !.status = "raised"]
         ELSE WalkEnter(w, 0, E)
    ELSE WalkLoop(w, Succs(E, w.frames[Len(w.frames)].blk), E)

InitWalk ==
    /\ edges \in Graphs
    /\ listing \in {Listing("ascending", s) : s \in SuccOrders(edges)}
    /\ nodes = << >>
    /\ path_cache = [b \in Blocks |-> << >>]
    /\ gen_cache = [b \in Blocks |-> 0]
    /\ gens = << >>
    /\ calls = << >>
    /\ last = NoLast
    /\ NoCopies
    /\ NoTools
    /\ NoUtils

\* The caller evaluates fc.paths_to_ea(ea): a generator whose body has not
\* run.
StartWalk(ea) ==
    /\ walk.status = "none"
    /\ walk' = [NoWalk EXCEPT !.ea = ea, !.status = "new"]
    /\ UNCHANGED <<edges, listing, nodes, path_cache, gen_cache, gens, calls,
                   last, copyVars, utilVars, found, trav, conv>>

\* The caller takes the next path.
StepWalk ==
    /\ walk.status \in {"new", "running"}
    /\ walk' = PathsToEaNext(walk, edges)
    /\ UNCHANGED <<edges, listing, nodes, path_cache, gen_cache, gens, calls,
                   last, copyVars, utilVars, found, trav, conv>>

NextWalk ==
    \/ \E ea \in (FuncStart - 1) .. FuncEnd : StartWalk(ea)
    \/ StepWalk

SpecWalk == InitWalk /\ [][NextWalk]_vars

\* The caller uses get_paths and paths_to_ea on one FlowChart: it creates
\* get_paths objects and one paths_to_ea generator and advances them in any
\* order.
NextBoth ==
    \/ \E ea \in QueryAddrs : Call(ea)
    \/ \E c \in 1 .. Len(calls) : Advance(c)
    \/ \E ea \in QueryAddrs : StartWalk(ea)
    \/ StepWalk

\* get_paths reads preds() and paths_to_ea reads succs().
InitBoth ==
    /\ edges \in Graphs
    /\ listing \in {Listing(p, s) : p \in PredOrders(edges),
                                    s \in SuccOrders(edges)}
    /\ NewFlowChart

SpecBoth == InitBoth /\ [][NextBoth]_vars

---------------------------------------------------------------------------
(* struct_pack / struct_unpack (kordesii/utils/function_tracing/utils.py).  *)
(* A Python integer is the list of its base-256 digits, most significant    *)
(* first (any number of leading zeros); a packed string is the list of its  *)
(* bytes.  A format string is its byte-order character and the list of its  *)
(* format characters.                                                       *)

\* The widths of struct_unpack_table (lines 105-111).
Widths == {1, 2, 4, 8, 16}

\* struct_unpack_table[width]
FormatChars(width) ==
    CASE width = 1 -> <<"B">>
      [] width = 2 -> <<"H">>
      [] width = 4 -> <<"L">>
      [] width = 8 -> <<"Q">>
      [] width = 16 -> <<"Q", "Q">>

\* The standard size of a format character of the struct module.
CharSize(c) ==
    CASE c = "B" -> 1 [] c = "H" -> 2 [] c = "L" -> 4 [] c = "Q" -> 8
      [] c = "f" -> 4 [] c = "d" -> 8

\* Line 121: `">" if BIG_ENDIAN else "<" + format_char`; the conditional
\* expression binds weaker than +, so the big-endian format string is ">"
\* alone.
GetFormatStr(be, width) ==
    IF be THEN [order |-> ">", chars |-> << >>]
    ELSE [order |-> "<", chars |-> FormatChars(width)]

\* value & (2 ** (8 * k) - 1): the low k digits.
LowDigits(v, k) ==
    [i \in 1 .. k |-> IF i <= k - Len(v) THEN 0 ELSE v[Len(v) - k + i]]

\* value >> (8 * k): the digits above the low k.
HighDigits(v, k) == IF Len(v) > k THEN SubSeq(v, 1, Len(v) - k) ELSE << >>

\* The integer v is below 2 ** (8 * k).
Fits(v, k) == \A i \in 1 .. (Len(v) - k) : v[i] = 0

\* The bytes of one integer under a format character of size k.
PackOne(order, k, v) ==
    IF order = "<" THEN Reverse(LowDigits(v, k)) ELSE LowDigits(v, k)

\* The lists of bytes bs, joined.
RECURSIVE Join(_)
Join(bs) == IF bs = << >> THEN << >> ELSE Head(bs) \o Join(Tail(bs))

\* struct.pack(fmt, *args): struct.error when the number of arguments is not
\* the number of format characters or an argument does not fit.
StructPack(fmt, args) ==
    IF \/ Len(fmt.chars) # Len(args)
       \/ \E i \in 1 .. Len(args) : ~Fits(args[i], CharSize(fmt.chars[i]))
    THEN [ok |-> FALSE, error |-> "struct.error", bytes |-> << >>]
    ELSE [ok |-> TRUE, error |-> "none",
          bytes |-> Join([i \in 1 .. Len(args) |->
                            PackOne(fmt.order, CharSize(fmt.chars[i]), args[i])])]

\* The number of bytes a format asks for.
RECURSIVE CalcSize(_)
CalcSize(chars) ==
    IF chars = << >> THEN 0 ELSE CharSize(Head(chars)) + CalcSize(Tail(chars))

\* The integers of the buffer, one per format character.
RECURSIVE UnpackAll(_, _, _)
UnpackAll(order, chars, buffer) ==
    IF chars = << >> THEN << >>
    ELSE <<IF order = "<"
           THEN Reverse(SubSeq(buffer, 1, CharSize(Head(chars))))
           ELSE SubSeq(buffer, 1, CharSize(Head(chars)))>>
         \o UnpackAll(order, Tail(chars),
                      SubSeq(buffer, CharSize(Head(chars)) + 1, Len(buffer)))

\* struct.unpack(fmt, buffer): struct.error when the buffer has not the size
\* of the format.
StructUnpack(fmt, buffer) ==
    IF CalcSize(fmt.chars) # Len(buffer)
    THEN [ok |-> FALSE, error |-> "struct.error", vals |-> << >>]
    ELSE [ok |-> TRUE, error |-> "none",
          vals |-> UnpackAll(fmt.order, fmt.chars, buffer)]

\* Lines 171-179: the integers struct_pack hands to struct.pack.
PackArgs(be, value, width) ==
    IF width = 16
    THEN IF be THEN <<HighDigits(value, 8), LowDigits(value, 8)>>
         ELSE <<LowDigits(value, 8), HighDigits(value, 8)>>
    ELSE <<LowDigits(value, width)>>

\* get_byte_width(value): 1, 2, 4 or 8; the function ends without a return
\* (None, here -1) for a value of more than 8 bytes.
get_byte_width(value) ==
    IF Fits(value, 1) THEN 1
    ELSE IF Fits(value, 2) THEN 2
    ELSE IF Fits(value, 4) THEN 4
    ELSE IF Fits(value, 8) THEN 8
    ELSE -1

\* Line 161: `width or get_byte_width(value)`; the width 0 is false, as None
\* is, and is replaced.
DefaultWidth(value, width) ==
    IF width = 0 THEN get_byte_width(value) ELSE width

\* Line 115: `width not in struct_unpack_table` is false.
InTable(width) == width \in Widths

\* Line 116: raise FunctionTracingError("Invalid width to unpack: ...").
InvalidWidth == [ok |-> FALSE, error |-> "FunctionTracingError",
                 bytes |-> << >>, value |-> << >>]

\* Lines 168-179 for the width w line 161 settled on.
PackWidth(be, value, w) ==
    IF ~InTable(w) THEN InvalidWidth
    ELSE StructPack(GetFormatStr(be, w), PackArgs(be, value, w))

\* struct_pack(value, width)
struct_pack(be, value, width) ==
    PackWidth(be, value, DefaultWidth(value, width))

\* Lines 139-147: the value struct_unpack makes of what struct.unpack
\* returned for a buffer of n bytes.
Combine(be, n, r) ==
    IF ~r.ok \/ (n = 16 /\ Len(r.vals) # 2) \/ (n # 16 /\ Len(r.vals) < 1)
    THEN [ok |-> FALSE, error |-> "struct.error", value |-> << >>]
    ELSE IF n = 16
    THEN [ok |-> TRUE, error |-> "none",
          value |-> IF be THEN r.vals[1] \o r.vals[2] ELSE r.vals[2] \o r.vals[1]]
    ELSE [ok |-> TRUE, error |-> "none", value |-> r.vals[1]]

\* struct_unpack(buffer)
struct_unpack(be, buffer) ==
    IF ~InTable(Len(buffer)) THEN InvalidWidth
    ELSE Combine(be, Len(buffer),
                 StructUnpack(GetFormatStr(be, Len(buffer)), buffer))

\* The bytes the values are made of.
ByteSamples == {0, 1, 128, 255}

\* The integers below 2 ** (8 * width) the round trip is run on, given by
\* their top byte, their low byte and the byte between.
ValuesOf(width) ==
    {[i \in 1 .. width |-> IF i = width THEN low
                            ELSE IF i = 1 THEN top ELSE fill] :
        top \in ByteSamples, fill \in ByteSamples, low \in ByteSamples}

InitPack ==
    /\ edges = GChain
    /\ listing = BlockOrder
    /\ nodes = << >>
    /\ path_cache = [b \in Blocks |-> << >>]
    /\ gen_cache = [b \in Blocks |-> 0]
    /\ gens = << >>
    /\ calls = << >>
    /\ last = NoLast
    /\ NoCopies
    /\ NoTools
    /\ NoUtils

\* The caller has a value and a width, on a target of either byte order.
ChooseValue(be, width, value) ==
    /\ conv.op = "none"
    /\ conv' = [NoConv EXCEPT !.op = "value", !.be = be, !.width = width,
                              !.value = value]
    /\ UNCHANGED <<edges, listing, nodes, path_cache, gen_cache, gens, calls,
                   last, copyVars, utilVars, found, trav, walk>>

\* The outcome r of struct_pack.
Packed(r) ==
    conv' = IF r.ok THEN [conv EXCEPT !.op = "packed", !.packed = r.bytes]
            ELSE IF r.error = "FunctionTracingError"
            THEN [conv EXCEPT !.op = "pack invalid width"]
            ELSE [conv EXCEPT !.op = "pack raised"]

\* The caller evaluates struct_pack(value, width).
Pack ==
    /\ conv.op = "value"
    /\ Packed(struct_pack(conv.be, conv.value, conv.width))
    /\ UNCHANGED <<edges, listing, nodes, path_cache, gen_cache, gens, calls,
                   last, copyVars, utilVars, found, trav, walk>>

\* The outcome r of struct_unpack.
Unpacked(r) ==
    conv' = IF r.ok THEN [conv EXCEPT !.op = "unpacked", !.unpacked = r.value]
            ELSE IF r.error = "FunctionTracingError"
            THEN [conv EXCEPT !.op = "unpack invalid width"]
            ELSE [conv EXCEPT !.op = "unpack raised"]

\* The caller evaluates struct_unpack on the packed string.
Unpack ==
    /\ conv.op = "packed"
    /\ Unpacked(struct_unpack(conv.be, conv.packed))
    /\ UNCHANGED <<edges, listing, nodes, path_cache, gen_cache, gens, calls,
                   last, copyVars, utilVars, found, trav, walk>>

NextPack ==
    \/ \E be \in BOOLEAN, width \in Widths :
          \E value \in ValuesOf(width) : ChooseValue(be, width, value)
    \/ Pack
    \/ Unpack

SpecPack == InitPack /\ [][NextPack]_vars

---------------------------------------------------------------------------
(* struct_pack with any width and struct_unpack with a buffer of any       *)
(* length.                                                                 *)

\* The widths a caller passes to struct_pack and the buffer lengths a caller
\* passes to struct_unpack: those of the table and the others up to 17.
AnyWidths == 0 .. 17

\* The values struct_pack is called with: of 1, 2 and 9 bytes.
AnyValues == ValuesOf(1) \cup ValuesOf(2) \cup ValuesOf(9)

\* The buffers struct_unpack is called with, given by their first byte and
\* the byte the rest is filled with.
BuffersOf(n) ==
    {[i \in 1 .. n |-> IF i = 1 THEN first ELSE fill] :
        first \in ByteSamples, fill \in ByteSamples}

\* The caller has a buffer, on a target of either byte order.
ChooseBuffer(be, buffer) ==
    /\ conv.op = "none"
    /\ conv' = [NoConv EXCEPT !.op = "buffer", !.be = be,
                              !.width = Len(buffer), !.packed = buffer]
    /\ UNCHANGED <<edges, listing, nodes, path_cache, gen_cache, gens, calls,
                   last, copyVars, utilVars, found, trav, walk>>

\* The caller evaluates struct_unpack(buffer).
UnpackBuffer ==
    /\ conv.op = "buffer"
    /\ Unpacked(struct_unpack(conv.be, conv.packed))
    /\ UNCHANGED <<edges, listing, nodes, path_cache, gen_cache, gens, calls,
                   last, copyVars, utilVars, found, trav, walk>>

NextWidth ==
    \/ \E be \in BOOLEAN, width \in AnyWidths, value \in AnyValues :
          ChooseValue(be, width, value)
    \/ Pack
    \/ \E be \in BOOLEAN, n \in AnyWidths :
          \E buffer \in BuffersOf(n) : ChooseBuffer(be, buffer)
    \/ UnpackBuffer

SpecWidth == InitPack /\ [][NextWidth]_vars

---------------------------------------------------------------------------
(* signed and sign_extend (kordesii/utils/function_tracing/utils.py).       *)
(* sign_extend works on integers of any size: they are base-256 digit       *)
(* lists, most significant digit first, as in struct_pack above.  signed    *)
(* is called with small bit widths and works on the model's integers.       *)

\* The greatest size in bytes sign_extend is called with.
MaxBytes == 4
\* The greatest bit width signed is called with on all values of the width.
MaxBits == 8

\* x & y and x | y for two integers below 2 ** n.
RECURSIVE AndBits(_, _, _)
AndBits(x, y, n) ==
    IF n = 0 THEN 0
    ELSE (x % 2) * (y % 2) + 2 * AndBits(x \div 2, y \div 2, n - 1)

RECURSIVE OrBits(_, _, _)
OrBits(x, y, n) ==
    IF n = 0 THEN 0
    ELSE (IF x % 2 = 1 \/ y % 2 = 1 THEN 1 ELSE 0)
         + 2 * OrBits(x \div 2, y \div 2, n - 1)

\* The digit list v with leading zeros up to k digits (k >= Len(v)).
Pad(v, k) == [i \in 1 .. k |-> IF i <= k - Len(v) THEN 0 ELSE v[i - (k - Len(v))]]

Longest(a, b) == IF Len(a) >= Len(b) THEN Len(a) ELSE Len(b)

\* a & b and a | b on digit lists.
BitAnd(a, b) ==
    [i \in 1 .. Longest(a, b) |->
        AndBits(Pad(a, Longest(a, b))[i], Pad(b, Longest(a, b))[i], 8)]

BitOr(a, b) ==
    [i \in 1 .. Longest(a, b) |->
        OrBits(Pad(a, Longest(a, b))[i], Pad(b, Longest(a, b))[i], 8)]

\* 2 ** r for r < 8.
RECURSIVE Pow2(_)
Pow2(r) == IF r = 0 THEN 1 ELSE 2 * Pow2(r - 1)

\* v >> s on a digit list: the digits above the low s \div 8, moved down by
\* the remaining bits.
ShiftRightDigits(v, s) ==
    [i \in 1 .. Len(HighDigits(v, s \div 8)) |->
        (HighDigits(v, s \div 8)[i] \div Pow2(s % 8))
        + (IF i > 1
           THEN (HighDigits(v, s \div 8)[i - 1] % Pow2(s % 8))
                * Pow2(8 - (s % 8))
           ELSE 0)]

\* v << (8 * k) on a digit list.
ShiftLeftBytes(v, k) == v \o [i \in 1 .. k |-> 0]

\* A Python integer is false when it is 0.
IsZero(v) == \A i \in 1 .. Len(v) : v[i] = 0

\* Two digit lists are the same integer.
SameInt(a, b) == Pad(a, Longest(a, b)) = Pad(b, Longest(a, b))

\* get_mask(size): 2 ** (8 * size) - 1.
get_mask(size) == [i \in 1 .. size |-> 255]

\* HighBits setting only the byte next to the original size.
HighBitsOneByte(dest_size, orig_size) ==
    ShiftLeftBytes(get_mask(1), orig_size)

\* Line 70: dest_max << orig_shift.
HighBits(dest_size, orig_size) ==
    ShiftLeftBytes(get_mask(dest_size), orig_size)

\* Lines 67-74 of sign_extend, masknumber being value & orig_max (line 66).
SignExtended(value, masknumber, orig_size, dest_size) ==
    IF ~IsZero(ShiftRightDigits(masknumber, 8 * orig_size - 1))
    THEN BitAnd(BitOr(HighBits(dest_size, orig_size), masknumber),
                get_mask(dest_size))
    ELSE BitAnd(value, get_mask(dest_size))

\* sign_extend(value, orig_size, dest_size)
sign_extend(value, orig_size, dest_size) ==
    SignExtended(value, BitAnd(value, get_mask(orig_size)),
                 orig_size, dest_size)

\* n >> k on the model's integers.
RECURSIVE ShiftRight(_, _)
ShiftRight(n, k) == IF k = 0 \/ n = 0 THEN n ELSE ShiftRight(n \div 2, k - 1)

\* HiBit looking one bit above the width.
HiBitAbove(n, bit_width) == ShiftRight(n, bit_width)

\* Line 36: n >> (bit_width - 1).
HiBit(n, bit_width) == ShiftRight(n, bit_width - 1)

\* signed(n, bit_width)
signed(n, bit_width) ==
    IF HiBit(n, bit_width) # 0 THEN n - 2 ^ bit_width ELSE n

\* A float is its sign, its biased exponent and the digits of its fraction
\* in the format it is representable in: "f" has 8 exponent bits and 23
\* fraction bits (3 digits, the first below 128), "d" has 11 and 52 (7
\* digits, the first below 16).
ExpBits(c) == IF c = "f" THEN 8 ELSE 11
TopFracBits(c) == IF c = "f" THEN 7 ELSE 4

\* The IEEE-754 bit pattern of the float f in format c, most significant
\* byte first.
FloatBits(f, c) ==
    <<f.sign * 128 + f.exp \div Pow2(ExpBits(c) - 7),
      (f.exp % Pow2(ExpBits(c) - 7)) * Pow2(TopFracBits(c)) + f.frac[1]>>
    \o Tail(f.frac)

\* The float whose bit pattern in format c is bits.
FloatOf(bits, c) ==
    [sign |-> bits[1] \div 128,
     exp |-> (bits[1] % 128) * Pow2(ExpBits(c) - 7)
             + bits[2] \div Pow2(TopFracBits(c)),
     frac |-> <<bits[2] % Pow2(TopFracBits(c))>> \o Tail(Tail(bits))]

\* The byte order of a struct format without a byte-order character: the
\* host's.
NativeOrder(host_be) == IF host_be THEN ">" ELSE "<"

\* struct.pack(c, val) for a float format c.
PackFloat(order, c, val) ==
    IF order = "<" THEN Reverse(FloatBits(val, c)) ELSE FloatBits(val, c)

\* struct.unpack(c, buffer)[0] for a float format c: struct.error when the
\* buffer has not the size of the format.
UnpackFloat(order, c, buffer) ==
    IF Len(buffer) # CharSize(c)
    THEN [ok |-> FALSE, error |-> "struct.error", value |-> << >>]
    ELSE [ok |-> TRUE, error |-> "none",
          value |-> FloatOf(IF order = "<" THEN Reverse(buffer) ELSE buffer, c)]

\* struct.unpack(c, buffer)[0] for an integer format c.
UnpackInt(order, c, buffer) ==
    Combine(FALSE, 0, StructUnpack([order |-> order, chars |-> <<c>>], buffer))

\* Lines 199 and 219: raise FunctionTracingError("Precision ... is not
\* valid.").
InvalidPrecision == [ok |-> FALSE, error |-> "FunctionTracingError",
                     value |-> << >>]

\* float_to_int(val, precision): line 195 unpacks the 4 bytes of "f" with
\* the 2-byte format "H".
float_to_int(host_be, val, precision) ==
    IF precision = 1
    THEN UnpackInt(NativeOrder(host_be), "H",
                   PackFloat(NativeOrder(host_be), "f", val))
    ELSE IF precision = 2
    THEN UnpackInt(NativeOrder(host_be), "Q",
                   PackFloat(NativeOrder(host_be), "d", val))
    ELSE InvalidPrecision

\* struct.unpack(c, struct.pack(i, val))[0] for an integer format i and a
\* float format c, p being what struct.pack returned or raised.
UnpackPacked(order, c, p) ==
    IF ~p.ok THEN [ok |-> FALSE, error |-> p.error, value |-> << >>]
    ELSE UnpackFloat(order, c, p.bytes)

\* int_to_float(val, precision): line 215 packs with the 2-byte format "H"
\* and unpacks with the 4-byte format "f".
int_to_float(host_be, val, precision) ==
    IF precision = 1
    THEN UnpackPacked(NativeOrder(host_be), "f",
                      StructPack([order |-> NativeOrder(host_be),
                                  chars |-> <<"H">>], <<val>>))
    ELSE IF precision = 2
    THEN UnpackPacked(NativeOrder(host_be), "d",
                      StructPack([order |-> NativeOrder(host_be),
                                  chars |-> <<"Q">>], <<val>>))
    ELSE InvalidPrecision

\* The precisions the caller passes: 1, 2 and two that are not valid.
Precisions == 0 .. 3

\* The biased exponents of the sampled finite floats of a format: zero and
\* subnormal numbers, the least and the greatest normal exponent, and 1.0.
ExpSamples(c) ==
    {0, 1, Pow2(ExpBits(c) - 1) - 1, 2 * Pow2(ExpBits(c) - 1) - 2}

\* The finite floats float_to_int is called with at a precision (those of
\* the single format when the precision is not valid).
FloatsIn(c) ==
    {[sign |-> s, exp |-> e,
      frac |-> [i \in 1 .. (IF c = "f" THEN 3 ELSE 7) |->
                  IF i = 1 THEN top ELSE fill]] :
        s \in {0, 1}, e \in ExpSamples(c),
        top \in {0, 1, Pow2(TopFracBits(c)) - 1}, fill \in ByteSamples}

FloatsOf(precision) == IF precision = 2 THEN FloatsIn("d") ELSE FloatsIn("f")

\* The call fn(args) with its outcome r.
Returned(fn, args, r) ==
    [fn |-> fn, args |-> args, raised |-> r.error, result |-> r.value]

\* The register numbers of the processor module: idautils.procregs.sp.reg
\* and ida_idp.str2reg of "RBX", "RBP", "RSI", "RDI".
R_sp == 4
R_bx == 3
R_bp == 5
R_si == 6
R_di == 7

\* x & y for two integers below 2 ** 16.
And16(x, y) == AndBits(x, y, 16)

\* ad16(insn): the addressing is 16-bit.
ad16(insn) ==
    And16(insn.auxpref, 4120) = 4096 \/ And16(insn.auxpref, 4120) = 8

\* has_sib(op): bool(op.specflag1)
has_sib(op) == op.specflag1 # 0

\* sib_base(insn, op)
sib_base(insn, op, ea64) ==
    IF ea64 /\ And16(insn.insnpref, 1) # 0
    THEN OrBits(And16(op.specflag2, 7), 8, 4)
    ELSE And16(op.specflag2, 7)

\* sib_index(insn, op)
sib_index(insn, op, ea64) ==
    IF ea64 /\ And16(insn.insnpref, 2) # 0
    THEN OrBits(And16(ShiftRight(op.specflag2, 3), 7), 8, 4)
    ELSE And16(ShiftRight(op.specflag2, 3), 7)

\* A register number returned, and the ValueError of lines 560 and 584.
Reg(r) == [error |-> "none", value |-> r]
UnableToParse == [error |-> "ValueError", value |-> -1]

\* x86_base_reg(insn, op), get_bits() being bits.
x86_base_reg(insn, op, bits, ea64) ==
    IF has_sib(op) THEN Reg(sib_base(insn, op, ea64))
    ELSE IF ~ad16(insn) THEN Reg(op.phrase)
    ELSE IF signed(op.phrase, bits) = -1 THEN Reg(R_sp)
    ELSE IF op.phrase \in {0, 1, 7} THEN Reg(R_bx)
    ELSE IF op.phrase \in {2, 3, 6} THEN Reg(R_bp)
    ELSE IF op.phrase = 4 THEN Reg(R_si)
    ELSE IF op.phrase = 5 THEN Reg(R_di)
    ELSE UnableToParse

\* x86_index_reg(insn, op); -1 is returned for no index register.
x86_index_reg(insn, op, ea64) ==
    IF has_sib(op)
    THEN IF sib_index(insn, op, ea64) # 4 THEN Reg(sib_index(insn, op, ea64))
         ELSE Reg(-1)
    ELSE IF ~ad16(insn) THEN Reg(-1)
    ELSE IF op.phrase \in {0, 2} THEN Reg(R_si)
    ELSE IF op.phrase \in {1, 3} THEN Reg(R_di)
    ELSE IF op.phrase \in {4, 5, 6, 7} THEN Reg(-1)
    ELSE UnableToParse

\* The instructions decoded: every combination of the segment-size and
\* address-size flags of auxpref (8, 16, 4096) and of one flag that is not
\* looked at (2048), with the REX bits 1 and 2 of insnpref.
Insns ==
    {[auxpref |-> a + b + c + d, insnpref |-> r] :
        a \in {0, 8}, b \in {0, 16}, c \in {0, 4096}, d \in {0, 2048},
        r \in 0 .. 3}

\* The operands decoded: without a SIB byte (specflag1 = 0) and with one,
\* whose phrase is a register number, a number no table names, or 65535 (no
\* register; -1 read as a 16-bit number).
Operands ==
    {[specflag1 |-> f, specflag2 |-> s, phrase |-> p] :
        f \in {0, 1}, s \in {0, 37, 101}, p \in (0 .. 9) \cup {65535}}

\* The integers sign_extend is called with: of up to MaxBytes - 1 bytes.
ExtendValues == UNION {ValuesOf(k) : k \in 1 .. (MaxBytes - 1)}

InitCalc ==
    /\ edges = GChain
    /\ listing = BlockOrder
    /\ nodes = << >>
    /\ path_cache = [b \in Blocks |-> << >>]
    /\ gen_cache = [b \in Blocks |-> 0]
    /\ gens = << >>
    /\ calls = << >>
    /\ last = NoLast
    /\ NoCopies
    /\ NoTools
    /\ NoUtils

\* The caller evaluates sign_extend(value, orig_size, dest_size).
SignExtend(value, orig_size, dest_size) ==
    /\ calc.fn = "none"
    /\ calc' = [fn |-> "sign_extend", args |-> <<value, orig_size, dest_size>>,
                raised |-> "none",
                result |-> sign_extend(value, orig_size, dest_size)]
    /\ UNCHANGED <<edges, listing, nodes, path_cache, gen_cache, gens, calls,
                   last, copyVars, toolVars, reporter, search>>

\* The caller extends the result once more, to size, and so has
\* sign_extend(sign_extend(value, a, b), b, size).
SignExtendAgain(size) ==
    /\ calc.fn = "sign_extend"
    /\ size >= calc.args[3]
    /\ calc' = [fn |-> "sign_extend twice", args |-> Append(calc.args, size),
                raised |-> "none",
                result |-> sign_extend(calc.result, calc.args[3], size)]
    /\ UNCHANGED <<edges, listing, nodes, path_cache, gen_cache, gens, calls,
                   last, copyVars, toolVars, reporter, search>>

\* The caller evaluates signed(n, bit_width).
Signed(n, bit_width) ==
    /\ calc.fn = "none"
    /\ calc' = [fn |-> "signed", args |-> <<n, bit_width>>, raised |-> "none",
                result |-> signed(n, bit_width)]
    /\ UNCHANGED <<edges, listing, nodes, path_cache, gen_cache, gens, calls,
                   last, copyVars, toolVars, reporter, search>>

\* The caller evaluates float_to_int(val, precision), on a host of either
\* byte order.
FloatToInt(host_be, val, precision) ==
    /\ calc.fn = "none"
    /\ calc' = Returned("float_to_int", <<val, precision, host_be>>,
                        float_to_int(host_be, val, precision))
    /\ UNCHANGED <<edges, listing, nodes, path_cache, gen_cache, gens, calls,
                   last, copyVars, toolVars, reporter, search>>

\* The caller hands the integer back to int_to_float, with the precision it
\* was made with.
IntToFloat ==
    /\ calc.fn = "float_to_int"
    /\ calc.raised = "none"
    /\ calc' = Returned("int_to_float", calc.args,
                        int_to_float(calc.args[3], calc.result, calc.args[2]))
    /\ UNCHANGED <<edges, listing, nodes, path_cache, gen_cache, gens, calls,
                   last, copyVars, toolVars, reporter, search>>

\* The caller decodes the base and the index register of the operand op of
\* the instruction insn, in a file of the given bit width.
DecodeOperand(insn, op, bits, ea64) ==
    /\ calc.fn = "none"
    /\ calc' = [fn |-> "x86_decode", args |-> <<insn, op, bits, ea64>>,
                raised |-> "none",
                result |-> [base |-> x86_base_reg(insn, op, bits, ea64),
                            index |-> x86_index_reg(insn, op, ea64)]]
    /\ UNCHANGED <<edges, listing, nodes, path_cache, gen_cache, gens, calls,
                   last, copyVars, toolVars, reporter, search>>

NextCalc ==
    \/ \E insn \in Insns, op \in Operands, bits \in {16, 32, 64},
          ea64 \in BOOLEAN : DecodeOperand(insn, op, bits, ea64)
    \/ \E host_be \in BOOLEAN, precision \in Precisions :
          \E val \in FloatsOf(precision) : FloatToInt(host_be, val, precision)
    \/ IntToFloat
    \/ \E value \in ExtendValues, orig_size \in 1 .. MaxBytes :
          \E dest_size \in orig_size .. MaxBytes :
             SignExtend(value, orig_size, dest_size)
    \/ \E size \in 1 .. MaxBytes : SignExtendAgain(size)
    \/ \E bit_width \in 1 .. MaxBits :
          \E n \in 0 .. (2 ^ bit_width - 1) : Signed(n, bit_width)

SpecCalc == InitCalc /\ [][NextCalc]_vars

\* The instruction types of insn_jcc (the members of ida_allins it names).
JccTypes ==
    {"NN_ja", "NN_jae", "NN_jb", "NN_jbe", "NN_jc", "NN_je", "NN_jg",
    "NN_jge", "NN_jl", "NN_jle", "NN_jna", "NN_jnae", "NN_jnb", "NN_jnbe",
    "NN_jnc", "NN_jne", "NN_jng", "NN_jnge", "NN_jnl", "NN_jnle", "NN_jno",
    "NN_jnp", "NN_jns", "NN_jnz", "NN_jo", "NN_jp", "NN_jpe", "NN_jpo",
    "NN_js", "NN_jz"}

\* The instruction types insn_default_opsize_64 names itself.
StackAndBranchTypes ==
    {"NN_pop", "NN_popf", "NN_popfq", "NN_push", "NN_pushf", "NN_pushfq",
    "NN_retn", "NN_retf", "NN_retnq", "NN_retfq", "NN_call", "NN_callfi",
    "NN_callni", "NN_enter", "NN_enterq", "NN_leave", "NN_leaveq",
    "NN_jcxz", "NN_jecxz", "NN_jrcxz", "NN_jmp", "NN_jmpni", "NN_jmpshort",
    "NN_loop", "NN_loopq", "NN_loope", "NN_loopqe", "NN_loopne",
    "NN_loopqne"}

\* insn_jcc(insn)
insn_jcc(insn) == insn.itype \in JccTypes

\* insn_default_opsize_64(insn)
insn_default_opsize_64(insn) ==
    insn_jcc(insn) \/ insn.itype \in StackAndBranchTypes

\* op16(insn): `and` binds tighter than `or`.
op16(insn) ==
    \/ And16(insn.auxpref, 2072) = 2048
    \/ And16(insn.auxpref, 2072) = 8
    \/ And16(insn.auxpref, 2072) = 16 /\ And16(insn.insnpref, 8) = 0

\* op32(insn)
op32(insn) ==
    \/ And16(insn.auxpref, 2072) = 0
    \/ And16(insn.auxpref, 2072) = 2056
    \/ And16(insn.auxpref, 2072) = 2064 /\ And16(insn.insnpref, 8) = 0

\* op64(insn); ea64 is idc.__EA64__.
op64(insn, ea64) ==
    IF ~ea64 THEN FALSE
    ELSE And16(insn.auxpref, 16) # 0
         /\ (And16(insn.insnpref, 8) # 0
             \/ (And16(insn.auxpref, 2048) # 0 /\ insn_default_opsize_64(insn)))

\* The instructions classified: the mode bits (8: 32-bit, 16: 64-bit), the
\* natural-operand-size bit 2048 and the address-size bit 4096 of auxpref,
\* the REX bits of insnpref (8 is REX.W), and an instruction type of each
\* class and outside of them.
SizedInsns ==
    {[auxpref |-> a + b + c + d, insnpref |-> r, itype |-> t] :
        a \in {0, 8}, b \in {0, 16}, c \in {0, 4096}, d \in {0, 2048},
        r \in 0 .. 15,
        t \in {"NN_jz", "NN_push", "NN_jmp", "NN_mov", "NN_add"}}

\* The caller evaluates op16(insn), op32(insn) and op64(insn).
OperandSize(insn, ea64) ==
    /\ calc.fn = "none"
    /\ calc' = [fn |-> "opsize", args |-> <<insn, ea64>>, raised |-> "none",
                result |-> [op16 |-> op16(insn), op32 |-> op32(insn),
                            op64 |-> op64(insn, ea64)]]
    /\ UNCHANGED <<edges, listing, nodes, path_cache, gen_cache, gens, calls,
                   last, copyVars, toolVars, reporter, search>>

NextOpSize ==
    \E insn \in SizedInsns, ea64 \in BOOLEAN : OperandSize(insn, ea64)

SpecOpSize == InitCalc /\ [][NextOpSize]_vars

---------------------------------------------------------------------------
(* Reporter (kordesii/reporter.py): one object used for several             *)
(* run_decoder calls.  Whatever a decoder run produces carries the number   *)
(* of that run: the string, the file contents, the error message and the    *)
(* IDA log of run k are all written k.                                      *)

\* Number of run_decoder calls made on the Reporter.
MaxRuns == 2

\* The serializers asked for by name; their data is the file "<name>.yml".
SerializerNames == {"other_data", "config"}

\* "{}.yml".format(name)
YmlFile(name) == <<name, "yml">>

\* Lines 76-79 and 300-302: metadata = {}, errors = [], ida_log = "" (0).
\* An absent list of metadata is the empty list; other_data holds
\* metadata["other_data"] when it is set.
NoMetadata == [strings |-> << >>, files |-> << >>, other_data |-> << >>]

\* "No entry" in _deserialized_data, and "nothing asked yet".
NoEntry == [kind |-> "absent"]
NoGot == [name |-> "none", run |-> 0, outcome |-> NoEntry]

\* Reporter.__init__ (lines 74-89).
NewReporter(base64outputfiles) ==
    [made |-> TRUE, base64 |-> base64outputfiles, run |-> 0,
     metadata |-> NoMetadata, errors |-> << >>, ida_log |-> 0,
     log_handler |-> FALSE, attached |-> 0,
     deserialized |-> [name \in SerializerNames |-> NoEntry],
     got |-> NoGot]

\* Reporter.__reset (lines 291-311): metadata, errors and ida_log are
\* emptied and a log handler is attached to the root logger;
\* _deserialized_data is left as it is.
Reset(r) ==
    [r EXCEPT !.metadata = NoMetadata, !.errors = << >>, !.ida_log = 0,
              !.log_handler = TRUE, !.attached = @ + 1]

\* Reporter.__cleanup (lines 313-340): the handler of this run is removed.
Cleanup(r) ==
    IF r.log_handler
    THEN [r EXCEPT !.log_handler = FALSE, !.attached = @ - 1]
    ELSE r

\* ReporterLogHandler.emit for a message above WARNING: every handler
\* attached for this reporter appends it to errors.
LogError(r, message) ==
    [r EXCEPT !.errors = @ \o [i \in 1 .. r.attached |-> message]]

\* base64.b64encode(data) and base64.b64decode(text).
B64Encode(data) == <<"b64", data>>
B64Decode(text) == text[2]

\* hashlib.md5(data).hexdigest()
Md5(data) == <<"md5", data>>

\* Reporter.add_string (lines 132-142).
AddString(r, string) ==
    [r EXCEPT !.metadata.strings = Append(@, string)]

\* Reporter.add_output_file (lines 153-171).
AddOutputFile(r, filename, data) ==
    [r EXCEPT
       !.metadata.files =
           Append(@, IF r.base64
                     THEN <<filename, "", Md5(data), B64Encode(data)>>
                     ELSE <<filename, "", Md5(data)>>),
       !.metadata.other_data =
           IF filename = YmlFile("other_data") THEN <<data>> ELSE @]

\* Reporter.get_file_contents (lines 173-183): the contents of the first
\* entry with that name that has them; << >> stands for None.
RECURSIVE FileContents(_, _)
FileContents(files, filename) ==
    IF files = << >> THEN << >>
    ELSE IF Head(files)[1] = filename /\ Len(Head(files)) = 4
    THEN <<B64Decode(Head(files)[4])>>
    ELSE FileContents(Tail(files), filename)

\* kordesii.serialization.deserialize(yml_data): the data of the file's
\* contents.  What it does with None is not part of this code: it returns
\* an empty result or raises, as none_ok says.
Deserialize(yml_data, none_ok) ==
    IF yml_data # << >> THEN [kind |-> "data", of |-> yml_data[1]]
    ELSE IF none_ok THEN [kind |-> "empty"]
    ELSE [kind |-> "raised"]

\* Lines 110-112: the entry of _deserialized_data for name.
LookUp(r, name) == r.deserialized[name]

\* Lines 113-116 of get_serialized, data being what deserialize gave.
Store(r, name, data) ==
    IF data.kind = "raised"
    THEN [r EXCEPT !.got = [name |-> name, run |-> r.run, outcome |-> data]]
    ELSE [r EXCEPT !.deserialized[name] = data,
                   !.got = [name |-> name, run |-> r.run, outcome |-> data]]

\* Reporter.get_serialized(name) (lines 101-116); other_data is
\* get_serialized("other_data").
get_serialized(r, name, none_ok) ==
    IF LookUp(r, name) # NoEntry
    THEN [r EXCEPT !.got = [name |-> name, run |-> r.run,
                            outcome |-> LookUp(r, name)]]
    ELSE Store(r, name,
               Deserialize(FileContents(r.metadata.files, YmlFile(name)),
                           none_ok))

\* What the decoder of a run does with the reporter it is handed: it may
\* record a string, write the file of a serializer ("none": no file), log
\* an error and set the IDA log.
DecoderOutputs ==
    [string : BOOLEAN, file : SerializerNames \cup {"none"},
     error : BOOLEAN, log : BOOLEAN]

\* decoder.run(input_file, self) for the decoder of run k (line 214).
RECURSIVE DecoderRun(_, _, _)
DecoderRun(r, out, k) ==
    IF out.string THEN DecoderRun(AddString(r, k), [out EXCEPT !.string = FALSE], k)
    ELSE IF out.file # "none"
    THEN DecoderRun(AddOutputFile(r, YmlFile(out.file), k),
                    [out EXCEPT !.file = "none"], k)
    ELSE IF out.error
    THEN DecoderRun(LogError(r, k), [out EXCEPT !.error = FALSE], k)
    ELSE IF out.log THEN [r EXCEPT !.ida_log = k]
    ELSE r

\* Lines 207-222 of run_decoder for the run k: the decoders found are run,
\* a missing decoder is logged as an error, and the handler is removed.
RunDecoders(r, decoder_found, out, k) ==
    Cleanup(IF decoder_found THEN DecoderRun(r, out, k) ELSE LogError(r, k))

\* Reporter.run_decoder(name, filename, data) (lines 185-222); without
\* filename and data it raises ValueError after the reset (lines 196-197).
run_decoder(r, has_input, decoder_found, out) ==
    IF has_input
    THEN RunDecoders(Reset([r EXCEPT !.run = @ + 1]), decoder_found, out, r.run + 1)
    ELSE Reset([r EXCEPT !.run = @ + 1])

InitReporter ==
    /\ edges = GChain
    /\ listing = BlockOrder
    /\ nodes = << >>
    /\ path_cache = [b \in Blocks |-> << >>]
    /\ gen_cache = [b \in Blocks |-> 0]
    /\ gens = << >>
    /\ calls = << >>
    /\ last = NoLast
    /\ NoCopies
    /\ NoTools
    /\ NoUtils

\* The caller makes the Reporter.
MakeReporter(base64outputfiles) ==
    /\ ~reporter.made
    /\ reporter' = NewReporter(base64outputfiles)
    /\ UNCHANGED <<edges, listing, nodes, path_cache, gen_cache, gens, calls,
                   last, copyVars, toolVars, calc, search>>

\* The caller evaluates reporter.run_decoder(...).
RunDecoder(has_input, decoder_found, out) ==
    /\ reporter.made
    /\ reporter.run < MaxRuns
    /\ reporter' = run_decoder(reporter, has_input, decoder_found, out)
    /\ UNCHANGED <<edges, listing, nodes, path_cache, gen_cache, gens, calls,
                   last, copyVars, toolVars, calc, search>>

\* The caller evaluates reporter.get_serialized(name), before the first
\* run or after a run.
GetSerialized(name, none_ok) ==
    /\ reporter.made
    /\ reporter' = get_serialized(reporter, name, none_ok)
    /\ UNCHANGED <<edges, listing, nodes, path_cache, gen_cache, gens, calls,
                   last, copyVars, toolVars, calc, search>>

NextReporter ==
    \/ \E base64outputfiles \in BOOLEAN : MakeReporter(base64outputfiles)
    \/ \E has_input \in BOOLEAN, decoder_found \in BOOLEAN, out \in DecoderOutputs :
          RunDecoder(has_input, decoder_found, out)
    \/ \E name \in SerializerNames, none_ok \in BOOLEAN :
          GetSerialized(name, none_ok)

SpecReporter == InitReporter /\ [][NextReporter]_vars

---------------------------------------------------------------------------
(* IDA_re and the segment cache (kordesii/utils/utils.py).  The database   *)
(* is a list of segments, in the order idautils.Segments() gives them; a    *)
(* segment is the list of its bytes.  A pattern is one byte value: it       *)
(* matches where that byte stands.  `matches` is what the last call of      *)
(* get_segment_bytes, next(g) or findall gave the caller.                   *)

\* Greatest number of segments of the database.
MaxSegs == 3
\* Number of bytes of one segment.
SegSize == 2

\* The start address of the i-th segment.
SegStart(i) == (i - 1) * (SegSize + 1)

\* The databases searched: up to MaxSegs segments of bytes 0 and 1.
Databases ==
    UNION {[1 .. n -> [1 .. SegSize -> {0, 1}]] : n \in 0 .. MaxSegs}

\* self._re.search(seg_bytes): the offset of the leftmost match, -1 for
\* None.
ReSearch(ptn, seg_bytes) ==
    IF \E i \in 1 .. Len(seg_bytes) : seg_bytes[i] = ptn
    THEN (CHOOSE i \in 1 .. Len(seg_bytes) :
             /\ seg_bytes[i] = ptn
             /\ \A j \in 1 .. (i - 1) : seg_bytes[j] # ptn) - 1
    ELSE -1

\* IDA_MatchObject(match, seg_start): start() is match.start() + seg_start.
IDA_MatchObject(match, seg_start) ==
    [kind |-> "match", seg_start |-> seg_start, start |-> match + seg_start]

\* Python's None, returned by search.
NoMatch == [kind |-> "None", seg_start |-> -1, start |-> -1]

\* IDA_re._get_segments(segname): the segment of that name (segname is its
\* number; 0 stands for None), or all segments in order.
GetSegments(db, segname) ==
    IF segname # 0 THEN <<segname>> ELSE [i \in 1 .. Len(db) |-> i]

\* Line 496: the `return None` in the body of the loop, reached when the
\* segment has no match.
AfterNoMatch(db, ptn, segments) == NoMatch

\* Lines 491-496: the loop of search over the segments left.
SearchSegments(db, ptn, segments) ==
    IF segments = << >> THEN NoMatch
    ELSE IF ReSearch(ptn, db[Head(segments)]) # -1
    THEN IDA_MatchObject(ReSearch(ptn, db[Head(segments)]),
                         SegStart(Head(segments)))
    ELSE AfterNoMatch(db, ptn, segments)

\* IDA_re(ptn).search(segname)
IDA_re_search(db, ptn, segname) ==
    SearchSegments(db, ptn, GetSegments(db, segname))

\* Segments.segment_bytes caches the bytes of every segment it is asked for
\* (lines 392-397): the segments _get_segments yielded before search
\* returned.
Yielded(db, ptn, segments) ==
    IF segments = << >> THEN {}
    ELSE {SegStart(Head(segments))}

InitSearch ==
    /\ edges = GChain
    /\ listing = BlockOrder
    /\ nodes = << >>
    /\ path_cache = [b \in Blocks |-> << >>]
    /\ gen_cache = [b \in Blocks |-> 0]
    /\ gens = << >>
    /\ calls = << >>
    /\ last = NoLast
    /\ NoCopies
    /\ NoTools
    /\ NoUtils

\* idc.get_segm_attr(ea, SEGATTR_START) for an address of a segment: the
\* number of the segment that holds ea (0: none).
SegmentOf(db, ea) ==
    IF \E i \in 1 .. Len(db) : SegStart(i) <= ea /\ ea < SegStart(i) + SegSize
    THEN CHOOSE i \in 1 .. Len(db) :
            SegStart(i) <= ea /\ ea < SegStart(i) + SegSize
    ELSE 0

\* The addresses of the segments of the database.
SegmentAddrs(db) ==
    {ea \in 0 .. (SegStart(Len(db) + 1) - 1) : SegmentOf(db, ea) # 0}

\* Segments.segment_bytes(val) (lines 392-397): the bytes are stored under
\* the start address of the segment.
SegmentBytes(cached, seg) == cached \cup {SegStart(seg)}

\* The start addresses of a list of segments.
SegStarts(segments) == {SegStart(segments[j]) : j \in 1 .. Len(segments)}

\* self._re.finditer(seg_bytes): the offsets of the matches, ascending.
ReFinditer(ptn, seg_bytes) ==
    SelectSeq([i \in 1 .. Len(seg_bytes) |-> i - 1],
              LAMBDA o : seg_bytes[o + 1] = ptn)

\* Lines 516-520: findall returns the matched bytes of every segment.
RECURSIVE FindallAll(_, _, _)
FindallAll(db, ptn, segments) ==
    IF segments = << >> THEN << >>
    ELSE [i \in 1 .. Len(ReFinditer(ptn, db[Head(segments)])) |-> ptn]
         \o FindallAll(db, ptn, Tail(segments))

\* No generator of finditer has been made.
NoFinditer == [status |-> "none", ptn |-> -1, segname |-> 0, seg |-> 0,
               taken |-> 0]

\* A database is open in the disassembler.  `gen` is the generator of
\* finditer the caller holds; status, ptn, segname, result and matches tell
\* of the last call only.
OpenDatabase(db) ==
    /\ search.status = "none"
    /\ search' = [status |-> "open", db |-> db, cached |-> {},
                  matches |-> << >>, gen |-> NoFinditer,
                  ptn |-> -1, segname |-> 0, result |-> NoMatch]
    /\ UNCHANGED <<edges, listing, nodes, path_cache, gen_cache, gens, calls,
                   last, copyVars, toolVars, calc, reporter>>

\* The record before a call other than search: the outcome of the call
\* before it is forgotten.
Opened(s) ==
    [s EXCEPT !.status = "open", !.ptn = -1, !.segname = 0,
              !.result = NoMatch, !.matches = << >>]

\* get_segment_bytes(ea) (lines 404-405) with an address of a segment: the
\* segment is cached and its bytes are returned.
get_segment_bytes(s, ea) ==
    [Opened(s) EXCEPT !.cached = SegmentBytes(@, SegmentOf(s.db, ea)),
                      !.matches = s.db[SegmentOf(s.db, ea)]]

\* IDA_re(ptn).finditer(segname) (lines 498-508): a generator, none of its
\* body has run.
IDA_re_finditer(s, ptn, segname) ==
    [Opened(s) EXCEPT !.gen = [status |-> "new", ptn |-> ptn,
                               segname |-> segname, seg |-> 0, taken |-> 0]]

\* The generator has returned (StopIteration).
FinditerDone(s) ==
    [s EXCEPT !.gen = [@ EXCEPT !.status = "done", !.seg = 0, !.taken = 0],
              !.matches = << >>]

\* The generator is suspended at line 508 with the match at offset o of the
\* segment number i of its list, its match number j.
FinditerYield(s, seg, i, j, o) ==
    [s EXCEPT !.gen = [@ EXCEPT !.status = "suspended", !.seg = i,
                                !.taken = j],
              !.matches = <<IDA_MatchObject(o, SegStart(seg))>>]

\* Lines 506-508 from the segment number i of the list on, j of its matches
\* taken: the next match is yielded; when the segment has no more,
\* _get_segments goes on with the next segment (line 483, which caches its
\* bytes), and the generator returns after the last one.
RECURSIVE FinditerLoop(_, _, _, _)
FinditerLoop(s, segments, i, j) ==
    IF i > Len(segments) THEN FinditerDone(s)
    ELSE IF j < Len(ReFinditer(s.gen.ptn, s.db[segments[i]]))
    THEN FinditerYield(s, segments[i], i, j + 1,
                       ReFinditer(s.gen.ptn, s.db[segments[i]])[j + 1])
    ELSE IF i = Len(segments) THEN FinditerDone(s)
    ELSE FinditerLoop([s EXCEPT !.cached = SegmentBytes(@, segments[i + 1])],
                      segments, i + 1, 0)

\* next(g) on the generator of finditer: from its start (the first segment
\* is fetched) or from its yield.
FinditerNext(s) ==
    IF s.gen.status = "new"
    THEN IF GetSegments(s.db, s.gen.segname) = << >>
         THEN FinditerDone(Opened(s))
         ELSE FinditerLoop(
                  [Opened(s) EXCEPT !.cached =
                      SegmentBytes(@, Head(GetSegments(s.db, s.gen.segname)))],
                  GetSegments(s.db, s.gen.segname), 1, 0)
    ELSE FinditerLoop(Opened(s), GetSegments(s.db, s.gen.segname),
                      s.gen.seg, s.gen.taken)

\* IDA_re(ptn).findall(segname) (lines 510-520).
IDA_re_findall(s, ptn, segname) ==
    [Opened(s) EXCEPT
       !.cached = @ \cup SegStarts(GetSegments(s.db, segname)),
       !.matches = FindallAll(s.db, ptn, GetSegments(s.db, segname))]

\* IDA_re(ptn).search(segname) (lines 485-496) and the segments it cached.
Searched(s, ptn, segname) ==
    [Opened(s) EXCEPT
       !.status = "searched",
       !.cached = @ \cup Yielded(s.db, ptn, GetSegments(s.db, segname)),
       !.ptn = ptn, !.segname = segname,
       !.result = IDA_re_search(s.db, ptn, segname)]

\* A database is open: the caller may call.
IsOpen == search.status \in {"open", "searched"}

\* The caller evaluates get_segment_bytes(ea).
GetSegmentBytes(ea) ==
    /\ IsOpen
    /\ ea \in SegmentAddrs(search.db)
    /\ search' = get_segment_bytes(search, ea)
    /\ UNCHANGED <<edges, listing, nodes, path_cache, gen_cache, gens, calls,
                   last, copyVars, toolVars, calc, reporter>>

\* The caller makes the generator g = IDA_re(ptn).finditer(segname), in
\* the place of the one it held.
Finditer(ptn, segname) ==
    /\ IsOpen
    /\ segname \in 0 .. Len(search.db)
    /\ search' = IDA_re_finditer(search, ptn, segname)
    /\ UNCHANGED <<edges, listing, nodes, path_cache, gen_cache, gens, calls,
                   last, copyVars, toolVars, calc, reporter>>

\* The caller evaluates next(g).
NextMatch ==
    /\ IsOpen
    /\ search.gen.status \in {"new", "suspended"}
    /\ search' = FinditerNext(search)
    /\ UNCHANGED <<edges, listing, nodes, path_cache, gen_cache, gens, calls,
                   last, copyVars, toolVars, calc, reporter>>

\* The caller evaluates IDA_re(ptn).findall(segname).
Findall(ptn, segname) ==
    /\ IsOpen
    /\ segname \in 0 .. Len(search.db)
    /\ search' = IDA_re_findall(search, ptn, segname)
    /\ UNCHANGED <<edges, listing, nodes, path_cache, gen_cache, gens, calls,
                   last, copyVars, toolVars, calc, reporter>>

\* The caller evaluates IDA_re(ptn).search(segname).
Search(ptn, segname) ==
    /\ IsOpen
    /\ segname \in 0 .. Len(search.db)
    /\ search' = Searched(search, ptn, segname)
    /\ UNCHANGED <<edges, listing, nodes, path_cache, gen_cache, gens, calls,
                   last, copyVars, toolVars, calc, reporter>>

NextSearch ==
    \/ \E db \in Databases : OpenDatabase(db)
    \/ \E ea \in 0 .. (SegStart(MaxSegs + 1) - 1) : GetSegmentBytes(ea)
    \/ \E ptn \in {0, 1}, segname \in 0 .. MaxSegs : Finditer(ptn, segname)
    \/ NextMatch
    \/ \E ptn \in {0, 1}, segname \in 0 .. MaxSegs : Findall(ptn, segname)
    \/ \E ptn \in {0, 1}, segname \in 0 .. MaxSegs : Search(ptn, segname)

SpecSearch == InitSearch /\ [][NextSearch]_vars

---------------------------------------------------------------------------
(* Reference notions the claims are stated with.                           *)

\* The loop-free walks from the function entry block (block 0) to block t in
\* the graph E without its back-edges (edges whose source does not start
\* before their target).
RECURSIVE WalksTo(_, _)
WalksTo(E, t) ==
    IF t = 0 THEN {<<0>>}
    ELSE UNION {{Append(w, t) : w \in WalksTo(E, p)} :
                p \in {q \in Blocks : <<q, t>> \in E /\ StartEA(q) < StartEA(t)}}

\* The block sequences (root first) of the PathBlocks in the list ps.
ChainsOf(ps) == {Chain(nodes, ps[i]) : i \in 1 .. Len(ps)}

\* No PathBlock and no block sequence occurs twice in the list ps.
NoRepeat(ps) ==
    \A i, j \in 1 .. Len(ps) :
        i # j => ps[i] # ps[j] /\ Chain(nodes, ps[i]) # Chain(nodes, ps[j])

IsPrefix(s, t) == Len(s) <= Len(t) /\ SubSeq(t, 1, Len(s)) = s

\* The block a get_paths object asks for.
Target(c) == find_block(calls[c].ea)

\* The earlier get_paths objects for the same block as object c.
EarlierSame(c) == {i \in 1 .. (c - 1) : Target(i) = Target(c)}

\* Object i has not been advanced since object c was created.
Untouched(i, c) == calls[c].snap[i] = Progress(calls[i])

\* Every block but the entry block has a predecessor, the entry block none.
EntryIsOnlyRoot(E) == \A b \in Blocks : (Len(Preds(E, b)) = 0) <=> (b = 0)

---------------------------------------------------------------------------
(* Claims on path enumeration (Spec).                                      *)

\* C1: on a graph with no earlier path queries, get_paths(addr) consumed to
\* completion yields exactly the loop-free walks from the entry block to the
\* block of addr in the graph without back-edges, each once.
C1_FreshQueryYieldsExactlyTheWalks ==
    (/\ Len(calls) >= 1
     /\ calls[1].phase = "done"
     /\ \A i \in 2 .. Len(calls) : calls[i].phase = "new")
    => /\ ChainsOf(calls[1].out) = WalksTo(edges, calls[1].blk)
       /\ NoRepeat(calls[1].out)

\* C2: whatever was enumerated before, fully or partially, get_paths(t)
\* consumed to completion yields every loop-free walk to t exactly once.
\* Stated for the graphs whose only block without predecessors is the entry.
C2_CompleteAfterAnyHistory ==
    \A c \in 1 .. Len(calls) :
        (EntryIsOnlyRoot(edges) /\ calls[c].phase = "done")
        => /\ ChainsOf(calls[c].out) = WalksTo(edges, calls[c].blk)
           /\ NoRepeat(calls[c].out)

\* C3: when a first get_paths(addr) is left after k paths and a second one
\* is consumed fully, the second yields the first k paths in their order and
\* then the remaining ones, every path to the block exactly once, and the
\* block's cached list is what was yielded.  Stated for the graphs whose
\* only block without predecessors is the entry (SpecResume).
C3_ResumedEnumerationIsComplete ==
    \A c \in 1 .. Len(calls) : \A i \in EarlierSame(c) :
        (EntryIsOnlyRoot(edges)
         /\ EarlierSame(c) = {i} /\ Untouched(i, c)
         /\ Len(calls[i].out) >= 1
         /\ calls[c].phase = "done")
        => /\ IsPrefix(calls[i].out, calls[c].out)
           /\ NoRepeat(calls[c].out)
           /\ ChainsOf(calls[c].out) = WalksTo(edges, calls[c].blk)
           /\ path_cache[calls[c].blk] = calls[c].out

\* Object c is the second get_paths object for its block, created after the
\* first one, object i, had been consumed fully.
SecondAfterFull(i, c) ==
    /\ EarlierSame(c) = {i}
    /\ calls[c].snap[i].phase = "done"

\* C4: a second get_paths(addr), called after the first was consumed fully,
\* yields the same PathBlock objects in the same order, all of them from the
\* path cache: no second builder generator is created for the block and the
\* second call never takes a path from the generator.
C4_SecondCallServedFromCache ==
    \A c \in 1 .. Len(calls) : \A i \in EarlierSame(c) :
        SecondAfterFull(i, c)
        => /\ IsPrefix(calls[c].out, calls[i].out)
           /\ calls[c].phase = "done" => calls[c].out = calls[i].out
           /\ calls[c].phase # "gen"
           /\ Cardinality({g \in 1 .. Len(gens) : gens[g].root = Target(c)}) = 1
           /\ gens[gen_cache[Target(c)]].status = "done"

C4_Witness ==
    \E c \in 1 .. Len(calls) : \E i \in EarlierSame(c) :
        /\ SecondAfterFull(i, c)
        /\ calls[c].phase = "done"
        /\ Len(calls[c].out) >= 2

\* C5: the cached list of every block only grows, each earlier state of it
\* being a prefix of every later one, and every entry under a block is a
\* PathBlock of that block.
C5_EntriesOfTheBlock ==
    \A b \in Blocks : \A i \in 1 .. Len(path_cache[b]) :
        /\ path_cache[b][i] \in 1 .. Len(nodes)
        /\ nodes[path_cache[b][i]].bb = b

C5_CacheOnlyGrows ==
    /\ []C5_EntriesOfTheBlock
    /\ [][\A b \in Blocks : IsPrefix(path_cache[b], path_cache'[b])]_vars

\* A cached list of two paths, one get_paths object left part-way and
\* another one for the same block consumed past the cached part.
C5_Witness ==
    \E b \in Blocks : \E c, i \in 1 .. Len(calls) :
        /\ Len(path_cache[b]) >= 2
        /\ c # i /\ calls[c].blk = b /\ calls[i].blk = b
        /\ calls[i].phase = "gen" /\ Len(calls[i].out) = 1
        /\ calls[c].phase = "gen" /\ Len(calls[c].out) >= 2

\* C6: every PathBlock yielded by get_paths is a chain back to the function
\* entry: its root is a parentless node for block 0 and every parent's block
\* is a predecessor of the child's block.
C6_ChainsStartAtEntry ==
    \A c \in 1 .. Len(calls) : \A i \in 1 .. Len(calls[c].out) :
        /\ Chain(nodes, calls[c].out[i])[1] = 0
        /\ \A j \in 1 .. (Len(Chain(nodes, calls[c].out[i])) - 1) :
              <<Chain(nodes, calls[c].out[i])[j],
                Chain(nodes, calls[c].out[i])[j + 1]>> \in edges

\* C7: in every PathBlock ever created the parent's block starts strictly
\* before the node's own block (so chains are finite and repeat no block),
\* also when the parent was taken from a cached list.
C7_ParentStartsBefore ==
    \A n \in 1 .. Len(nodes) :
        nodes[n].prev # 0
        => /\ nodes[n].prev \in 1 .. (n - 1)
           /\ StartEA(nodes[nodes[n].prev].bb) < StartEA(nodes[n].bb)

\* A PathBlock whose parent is an entry of a cached list, on the graph with
\* a self-loop and a back-edge.
C7_Witness ==
    /\ edges = GLoops
    /\ \E n \in 1 .. Len(nodes) :
          /\ nodes[n].prev # 0
          /\ \E i \in 1 .. Len(path_cache[nodes[nodes[n].prev].bb]) :
                path_cache[nodes[nodes[n].prev].bb][i] = nodes[n].prev

---------------------------------------------------------------------------
(* Claims on the incremental CPU context (SpecCtx).  `last` records the     *)
(* last request: the node, the address asked for, the node as it was before *)
(* the request, the processor steps made and the copy returned.             *)

\* The address a request stops at: the end of the node's block for the
\* default request, the head after the instruction at ea otherwise.
EndOfRequest == IF last.ea = -1 THEN EndEA(last.before.bb) ELSE NextHead(last.ea)

\* The instruction addresses the processor step was called with on the
\* requested node's own context, in order.
RECURSIVE OwnSteps(_, _)
OwnSteps(execs, n) ==
    IF execs = << >> THEN << >>
    ELSE IF Head(execs).node = n THEN <<Head(execs).ip>> \o OwnSteps(Tail(execs), n)
    ELSE OwnSteps(Tail(execs), n)

\* The fill-point the replay starts from: the cached one when it can be
\* kept, the start of the block when the context is made anew.
ReplayFrom(end) ==
    IF last.before.has_ctx /\ last.before.ctx_ea <= end
    THEN last.before.ctx_ea ELSE StartEA(last.before.bb)

\* C8 as claimed: a request for address e (the block end by default) replays
\* the instructions in [fill-point, e), does not execute the instruction at
\* e, and leaves the cached fill-point at e.
C8_ReplayStopsBeforeRequested ==
    last.op = "ctx"
    => LET e == IF last.ea = -1 THEN EndEA(last.before.bb) ELSE last.ea IN
       /\ OwnSteps(last.execs, last.node) = Heads(ReplayFrom(e), e)
       /\ \A i \in 1 .. Len(last.execs) :
             ~(last.execs[i].node = last.node /\ last.execs[i].ip = e)
       /\ nodes[last.node].ctx_ea = e

\* C8 amended: a request for address ea replays the instructions in
\* [fill-point, NextHead(ea)), the instruction at ea included, and leaves
\* the cached fill-point at NextHead(ea); the default request replays
\* [fill-point, end of block) and leaves the fill-point at the block's end.
C8_ReplayIncludesRequested ==
    last.op = "ctx"
    => /\ OwnSteps(last.execs, last.node)
            = Heads(ReplayFrom(EndOfRequest), EndOfRequest)
       /\ nodes[last.node].ctx_ea = EndOfRequest
       /\ (last.ea # -1 /\ IsHead(last.ea))
            => /\ last.ret # << >>
               /\ last.ret[Len(last.ret)] = last.ea

\* A request for the first instruction of a block, which is executed.
C8_Witness ==
    /\ last.op = "ctx"
    /\ last.ea = StartEA(last.before.bb)
    /\ last.execs # << >>
    /\ last.execs[Len(last.execs)] = [node |-> last.node, ip |-> last.ea]

\* C9: a request on a node whose cached fill-point f is at or before the
\* end e the request stops at makes one processor step per instruction in
\* [f, e) and no other: none when f = e, none in an ancestor.
C9_OnlyTheSuffixIsReplayed ==
    (last.op = "ctx" /\ last.before.has_ctx /\ last.before.ctx_ea <= EndOfRequest)
    => /\ last.execs = [i \in 1 .. Len(Heads(last.before.ctx_ea, EndOfRequest)) |->
                          [node |-> last.node,
                           ip |-> Heads(last.before.ctx_ea, EndOfRequest)[i]]]
       /\ last.before.ctx_ea = EndOfRequest => last.execs = << >>

\* The suffix of a block replayed on a node with a parent, after the
\* prefix had been computed.
C9_Witness ==
    /\ last.op = "ctx"
    /\ last.before.has_ctx
    /\ last.before.prev # 0
    /\ last.before.ctx_ea > StartEA(last.before.bb)
    /\ last.before.ctx_ea < EndOfRequest
    /\ Len(last.execs) = 1

\* C10: with no cached snapshot, or a cached fill-point past the end e the
\* request stops at, the cached state is discarded: the baseline is the
\* parent's context at the end of the parent's block (a default context
\* without a parent) and the block is replayed from its start up to e.  A
\* request at or after the fill-point keeps the cached state and extends it.
C10_ReinitFromParent ==
    last.op = "ctx"
    => LET n == last.node
           p == nodes[n].prev
       IN IF ~last.before.has_ctx \/ last.before.ctx_ea > EndOfRequest
          THEN /\ p # 0 =>
                    /\ nodes[p].has_ctx
                    /\ nodes[p].ctx_ea = EndEA(nodes[p].bb)
                    /\ last.ret = nodes[p].ctx
                                    \o Heads(StartEA(nodes[n].bb), EndOfRequest)
               /\ p = 0 => last.ret = Heads(StartEA(nodes[n].bb), EndOfRequest)
               /\ OwnSteps(last.execs, n) = Heads(StartEA(nodes[n].bb), EndOfRequest)
               /\ nodes[n].ctx = last.ret
          ELSE /\ last.ret = last.before.ctx
                               \o Heads(last.before.ctx_ea, EndOfRequest)
               /\ nodes[n].ctx = last.ret
               /\ \A i \in 1 .. Len(last.execs) : last.execs[i].node = n

\* A request before the cached fill-point on a node with a parent.
C10_Witness ==
    /\ last.op = "ctx"
    /\ last.before.has_ctx
    /\ last.before.ctx_ea > EndOfRequest
    /\ last.before.prev # 0
    /\ Len(last.ret) >= 3

\* C11: the object cpu_context returns is an independent copy.  Whatever the
\* caller does to the objects it was handed, and whatever a child node
\* replays on the baseline it took from its parent, every PathBlock's own
\* context object holds what it held without any copy handed out (the
\* context of the PathBlock fields), and every request returns that value.
C11_SnapshotsAreIndependent ==
    /\ \A n \in 1 .. Len(nodes) :
          /\ (ctx_ref[n] # 0) = nodes[n].has_ctx
          /\ ctx_ref[n] # 0 => heap[ctx_ref[n]] = nodes[n].ctx
          /\ ctx_ref[n] \notin held
    /\ \A n, m \in 1 .. Len(nodes) :
          (n # m /\ ctx_ref[n] # 0) => ctx_ref[n] # ctx_ref[m]
    /\ last.op = "ctx" => last.ret = nodes[last.node].ctx

\* A request on a parent node served after a child took its baseline from
\* it, with a returned object the caller has changed.
C11_Witness ==
    /\ last.op = "ctx" /\ last.before.has_ctx
    /\ \E c \in 1 .. Len(nodes) :
          /\ nodes[c].prev = last.node
          /\ nodes[c].has_ctx
          /\ Len(nodes[c].ctx) > Len(nodes[last.node].ctx)
    /\ \E h \in held : Len(heap[h]) > 0 /\ heap[h][Len(heap[h])] = -1

\* C12: cpu_context with an address outside the node's block [start, end)
\* raises: every request with such an address ends in the error, with no
\* processor step made and the node's context and fill-point as they were;
\* the requests that are served have an address of the block, or none.
C12_OutOfRangeRaisesAndKeepsState ==
    /\ last.op = "raise" =>
          /\ last.execs = << >>
          /\ nodes[last.node] = last.before
    /\ last.op = "ctx" =>
          \/ last.ea = -1
          \/ StartEA(last.before.bb) <= last.ea /\ last.ea < EndEA(last.before.bb)
    /\ last.op \in {"ctx", "raise"} =>
          (last.op = "raise") =
             (last.ea # -1 /\ last.ea \notin InBlock(last.before.bb))

\* A refused request on a node that has a context filled part of its block.
C12_Witness ==
    /\ last.op = "raise"
    /\ last.before.has_ctx
    /\ last.before.ctx_ea < EndEA(last.before.bb)
    /\ last.ea = EndEA(last.before.bb)

\* C13: find_block(ea) returns a block whose range [start, end) contains ea
\* whenever a block of the graph contains ea, and the not-found value
\* (written NumBlocks) otherwise; repeated calls for one address never
\* return two different results.
C13_FindBlockContainsAndIsStable ==
    \A ea \in DOMAIN found :
       /\ Cardinality(found[ea]) <= 1
       /\ \A b \in found[ea] :
             IF \E c \in Blocks : StartEA(c) <= ea /\ ea < EndEA(c)
             THEN b \in Blocks /\ StartEA(b) <= ea /\ ea < EndEA(b)
             ELSE b = NumBlocks

\* The last address of a block other than the entry has been found in its
\* block, and the address after the function has been looked up in vain.
C13_Witness ==
    /\ DOMAIN found # {}
    /\ found[EndEA(1) - 1] = {1}
    /\ found[FuncEnd] = {NumBlocks}

\* The blocks reachable from the blocks S along the edges E.
RECURSIVE ReachFrom(_, _)
ReachFrom(E, S) ==
    IF {b \in Blocks : \E a \in S : <<a, b>> \in E} \subseteq S THEN S
    ELSE ReachFrom(E, S \cup {b \in Blocks : \E a \in S : <<a, b>> \in E})

\* The elements of the list s.
Range(s) == {s[i] : i \in 1 .. Len(s)}

\* The part of the list s from the first occurrence of b on.
SuffixFrom(s, b) ==
    IF b \in Range(s)
    THEN SubSeq(s, CHOOSE i \in 1 .. Len(s) :
                       s[i] = b /\ \A j \in 1 .. (i - 1) : s[j] # b, Len(s))
    ELSE << >>

\* The elements of the set S by descending value.
Descending(S) == Reverse(SortedSeq(S))

\* C14: forward DFS and forward BFS without a start address yield every
\* block reachable from the entry block exactly once and no other block,
\* cycles, self-loops and blocks with several incoming edges included.
C14_ForwardVisitsReachableOnce ==
    (trav.kind \in Forward /\ trav.start = -1 /\ ~trav.heads) =>
       /\ \A i, j \in 1 .. Len(trav.out) : i # j => trav.out[i] # trav.out[j]
       /\ Range(trav.out) \subseteq ReachFrom(edges, {0})
       /\ trav.status = "done" => Range(trav.out) = ReachFrom(edges, {0})

\* A finished forward traversal of the graph with a self-loop, a cycle and
\* blocks with several incoming edges.
C14_Witness ==
    /\ trav.kind \in Forward /\ trav.start = -1 /\ ~trav.heads
    /\ trav.status = "done"
    /\ edges = GLoops
    /\ Len(trav.out) = 4

\* The blocks yielded so far are the beginning of `suffix`, and all of it
\* once the traversal is finished.
YieldsSuffix(t, suffix) ==
    /\ IsPrefix(t.out, suffix)
    /\ t.status = "done" => t.out = suffix

\* C15: a forward traversal (DFS or BFS) with a start address yields exactly
\* the part of the traversal without start address that begins at the block
\* containing the start address: nothing before it, everything from it on.
C15_StartedTraversalIsSuffix ==
    (trav.kind \in Forward /\ trav.start # -1 /\ ~trav.heads) =>
       YieldsSuffix(trav,
                    SuffixFrom(RunTrav(NewTrav(trav.kind, -1, FALSE), edges).out,
                               find_block(trav.start)))

\* A finished traversal started inside a block other than the entry that
\* left out a block and yielded more than one.
C15_Witness ==
    /\ trav.kind \in Forward /\ ~trav.heads /\ trav.status = "done"
    /\ trav.start # -1 /\ find_block(trav.start) \in Blocks \ {0}
    /\ trav.start # StartEA(find_block(trav.start))
    /\ Len(trav.out) >= 2
    /\ Range(trav.out) # ReachFrom(edges, {0})

\* C16: reverse DFS and reverse BFS without a start address yield first the
\* block with the greatest start address of the graph.
C16_ReverseStartsAtGreatest ==
    (trav.kind \in Backward /\ trav.start = -1 /\ trav.out # << >>) =>
       trav.out[1] = NumBlocks - 1

\* C17: in a reverse traversal started at block x, every block yielded after
\* x is a predecessor of a block yielded before it that starts after it, so
\* it starts before x; the predecessors of the block just yielded are queued
\* by descending start address (at the front for DFS, at the back for BFS).
C17_ReverseWalksStrictlyLower ==
    (trav.kind \in Backward /\ trav.out # << >>) =>
       /\ \A i \in 2 .. Len(trav.out) :
             /\ StartEA(trav.out[i]) < StartEA(trav.out[1])
             /\ \E j \in 1 .. (i - 1) :
                   /\ <<trav.out[i], trav.out[j]>> \in edges
                   /\ StartEA(trav.out[j]) > StartEA(trav.out[i])
       /\ (trav.status = "running" /\ trav.pending = << >>) =>
             LET cur == trav.out[Len(trav.out)]
                 lower == Descending({p \in Blocks : /\ <<p, cur>> \in edges
                                                     /\ StartEA(p) < StartEA(cur)})
                 n == Len(trav.non_visited)
             IN  /\ Len(lower) <= n
                 /\ IF trav.kind = "dfs_reverse"
                    THEN SubSeq(trav.non_visited, 1, Len(lower)) = lower
                    ELSE SubSeq(trav.non_visited, n - Len(lower) + 1, n) = lower

\* A finished reverse traversal from the last block of the graph with the
\* cycles, which yielded the entry block more than once.
C17_Witness ==
    /\ trav.kind \in Backward /\ trav.status = "done"
    /\ edges = GLoops
    /\ trav.start = EndEA(NumBlocks - 1) - 1
    /\ Len(trav.out) > NumBlocks
    /\ trav.out[1] = NumBlocks - 1

\* C18: a traversal (DFS or BFS, forward or reverse, of blocks or of
\* instruction addresses) from a start address that lies in no block yields
\* nothing and raises no error.
C18_UnknownStartYieldsNothing ==
    (trav.status # "none" /\ trav.start # -1
        /\ find_block(trav.start) = NumBlocks) =>
       /\ trav.status # "raised"
       /\ trav.out = << >>
       /\ trav.hout = << >>

\* The paths without a repeated block that extend p along the edges E and end
\* at block t.
RECURSIVE SimplePathsFrom(_, _, _)
SimplePathsFrom(E, p, t) ==
    IF p[Len(p)] = t THEN {p}
    ELSE UNION {SimplePathsFrom(E, Append(p, s), t) :
                s \in {x \in Blocks : <<p[Len(p)], x>> \in E /\ x \notin Range(p)}}

\* C19: paths_to_ea(ea) for an ea inside the function, taken to completion,
\* yields each simple path from the entry block to the block containing ea
\* exactly once, as a block list from the entry block to the target block;
\* when it has finished, visited and cur_path are empty again.
C19_PathsToEaYieldsSimplePaths ==
    (walk.status = "done") =>
       /\ Range(walk.out) = SimplePathsFrom(edges, <<0>>, find_block(walk.ea))
       /\ \A i, j \in 1 .. Len(walk.out) : i # j => walk.out[i] # walk.out[j]
       /\ \A i \in 1 .. Len(walk.out) :
             /\ walk.out[i][1] = 0
             /\ walk.out[i][Len(walk.out[i])] = find_block(walk.ea)
       /\ walk.visited = {}
       /\ walk.cur_path = << >>
       /\ walk.frames = << >>

\* A finished enumeration, on the graph with the cycles, that yielded two
\* paths to the last block.
C19_Witness ==
    /\ walk.status = "done"
    /\ edges = GLoops
    /\ find_block(walk.ea) = NumBlocks - 1
    /\ Len(walk.out) = 2

\* C20: for every width w of 1, 2, 4, 8, 16 and every v with
\* 0 <= v < 2^(8w), struct_unpack(struct_pack(v, w)) = v, for both byte
\* orders of the target; the packed string has w bytes.
C20_PackUnpackRoundTrip ==
    /\ conv.op \notin {"pack raised", "unpack raised"}
    /\ conv.op \in {"packed", "unpacked"} => Len(conv.packed) = conv.width
    /\ conv.op = "unpacked" => conv.unpacked = conv.value

\* C21: struct_pack with a width outside {1, 2, 4, 8, 16}, the width 0
\* included, and struct_unpack with a buffer whose length is outside that
\* set fail with the invalid-width error (FunctionTracingError) and return
\* no value.
C21_InvalidWidthRaises ==
    /\ (conv.op \in {"packed", "pack raised", "pack invalid width"}
           /\ conv.width \notin Widths)
          => conv.op = "pack invalid width"
    /\ (conv.op \in {"unpacked", "unpack raised", "unpack invalid width"}
           /\ Len(conv.packed) \notin Widths)
          => conv.op = "unpack invalid width"

\* The low k bytes of v, as k digits.
LowBytes(v, k) == LowDigits(v, k)

\* The k-byte value low extended to n bytes: by zeros when its top bit is
\* clear, by ones when it is set.
ExtendedTo(low, n) ==
    [i \in 1 .. n |->
        IF i <= n - Len(low) THEN (IF low[1] >= 128 THEN 255 ELSE 0)
        ELSE low[i - (n - Len(low))]]

\* C22: sign_extend(value, from_bytes, to_bytes) depends only on the low
\* from_bytes bytes of value: it is those bytes extended by zeros when their
\* top bit is clear and by ones up to 8 * to_bytes when it is set; bits of
\* value above from_bytes bytes never reach the result.
C22_SignExtendUsesLowBytesOnly ==
    calc.fn = "sign_extend" =>
        SameInt(calc.result,
                ExtendedTo(LowBytes(calc.args[1], calc.args[2]), calc.args[3]))

\* C23: sign extension composes: for an a-byte value v and byte widths
\* a <= b <= c, sign_extend(sign_extend(v, a, b), b, c) = sign_extend(v, a, c);
\* in particular for a = 1, b = 2, c = 4.
C23_SignExtendComposes ==
    (calc.fn = "sign_extend twice" /\ Fits(calc.args[1], calc.args[2])) =>
        SameInt(calc.result,
                sign_extend(calc.args[1], calc.args[2], calc.args[4]))

\* A negative 1-byte value was extended to 2 and then to 4 bytes.
C23_Witness ==
    /\ calc.fn = "sign_extend twice"
    /\ calc.args = <<<<128>>, 1, 2, 4>>
    /\ SameInt(calc.result, <<255, 255, 255, 128>>)

\* C24: for 0 <= v < 2^w, signed(v, w) is v - 2^w when bit w-1 of v is set
\* and v otherwise; it lies in [-2^(w-1), 2^(w-1)) and is congruent to v
\* modulo 2^w.
C24_SignedIsTwosComplement ==
    calc.fn = "signed" =>
        /\ calc.result = IF (calc.args[1] \div 2 ^ (calc.args[2] - 1)) % 2 = 1
                         THEN calc.args[1] - 2 ^ calc.args[2]
                         ELSE calc.args[1]
        /\ calc.result >= -(2 ^ (calc.args[2] - 1))
        /\ calc.result < 2 ^ (calc.args[2] - 1)
        /\ (calc.result - calc.args[1]) % (2 ^ calc.args[2]) = 0

\* A value with its top bit set was read as a negative number.
C24_Witness ==
    /\ calc.fn = "signed"
    /\ calc.args = <<2 ^ MaxBits - 1, MaxBits>>
    /\ calc.result = -1

\* C25: for p = 1 (single, 4-byte bit pattern) and p = 2 (double, 8-byte
\* bit pattern) float_to_int(f, p) returns the full bit pattern of a finite
\* f representable at precision p and int_to_float(float_to_int(f, p), p)
\* is f; any other precision fails with the invalid-precision error
\* (FunctionTracingError).
C25_FloatIntRoundTrip ==
    /\ (calc.fn = "float_to_int" /\ calc.args[2] \in {1, 2}) =>
          /\ calc.raised = "none"
          /\ SameInt(calc.result,
                     FloatBits(calc.args[1],
                               IF calc.args[2] = 1 THEN "f" ELSE "d"))
    /\ (calc.fn = "float_to_int" /\ calc.args[2] \notin {1, 2}) =>
          calc.raised = "FunctionTracingError"
    /\ calc.fn = "int_to_float" =>
          calc.raised = "none" /\ calc.result = calc.args[1]

\* The legacy table of 16-bit addressing: phrase -> <<base, index>>, -1 for
\* no index register ([BX+SI], [BX+DI], [BP+SI], [BP+DI], [SI], [DI], [BP],
\* [BX]).
LegacyTable(phrase) ==
    CASE phrase = 0 -> <<R_bx, R_si>>
      [] phrase = 1 -> <<R_bx, R_di>>
      [] phrase = 2 -> <<R_bp, R_si>>
      [] phrase = 3 -> <<R_bp, R_di>>
      [] phrase = 4 -> <<R_si, -1>>
      [] phrase = 5 -> <<R_di, -1>>
      [] phrase = 6 -> <<R_bp, -1>>
      [] phrase = 7 -> <<R_bx, -1>>

\* C26: for an operand without a SIB byte, under 16-bit addressing the
\* phrases 0..7 decode to (BX,SI), (BX,DI), (BP,SI), (BP,DI), (SI,none),
\* (DI,none), (BP,none), (BX,none); under other addressing the base is the
\* phrase register and there is no index; an encoding the table does not
\* name fails with the address-decode error (ValueError) in the base decoder
\* and in the index decoder alike.
C26_LegacyDecodeTable ==
    (calc.fn = "x86_decode" /\ ~has_sib(calc.args[2])) =>
        IF ~ad16(calc.args[1])
        THEN /\ calc.result.base = Reg(calc.args[2].phrase)
             /\ calc.result.index = Reg(-1)
        ELSE IF calc.args[2].phrase \in 0 .. 7
        THEN /\ calc.result.base = Reg(LegacyTable(calc.args[2].phrase)[1])
             /\ calc.result.index = Reg(LegacyTable(calc.args[2].phrase)[2])
        ELSE /\ calc.result.base = UnableToParse
             /\ calc.result.index = UnableToParse

\* Every element of the list s is k.
AllFrom(s, k) == \A i \in 1 .. Len(s) : s[i] = k

\* C27: one Reporter is used for several run_decoder calls; once a later
\* run_decoder has started, metadata, errors, ida_log and the data
\* get_serialized / other_data return hold only what the current run
\* produced, never data of an earlier run.
C27_ReporterShowsCurrentRunOnly ==
    (reporter.made /\ reporter.run > 0) =>
        /\ AllFrom(reporter.metadata.strings, reporter.run)
        /\ AllFrom(reporter.metadata.other_data, reporter.run)
        /\ \A i \in 1 .. Len(reporter.metadata.files) :
              reporter.metadata.files[i][3] = Md5(reporter.run)
        /\ AllFrom(reporter.errors, reporter.run)
        /\ reporter.ida_log \in {0, reporter.run}
        /\ (reporter.got.run = reporter.run
              /\ reporter.got.outcome.kind = "data")
             => reporter.got.outcome.of = reporter.run

\* The segments of the database db the pattern matches in.
Matching(db, ptn) == {i \in 1 .. Len(db) : ReSearch(ptn, db[i]) # -1}

\* C28: IDA_re.search over the entire file returns a match object, for the
\* first segment in segment order that matches, whenever the pattern
\* matches in at least one segment, and None only when no segment has a
\* match.
C28_SearchFindsFirstMatchingSegment ==
    (search.status = "searched" /\ search.segname = 0) =>
        IF Matching(search.db, search.ptn) = {}
        THEN search.result = NoMatch
        ELSE /\ search.result.kind = "match"
             /\ \E i \in Matching(search.db, search.ptn) :
                   /\ \A j \in Matching(search.db, search.ptn) : i <= j
                   /\ search.result.seg_start = SegStart(i)
                   /\ search.result.start
                        = SegStart(i) + ReSearch(search.ptn, search.db[i])

\* The recursive depth-first preorder: Preorder(E, b, acc) is acc followed
\* by what a recursive visit of b adds to it, the successors taken by
\* ascending start address and each descended into fully before the next.
RECURSIVE Preorder(_, _, _)
RECURSIVE PreorderEach(_, _, _)
Preorder(E, b, acc) ==
    IF b \in Range(acc) THEN acc
    ELSE PreorderEach(E, SortedByStart(Succs(E, b)), Append(acc, b))

PreorderEach(E, children, acc) ==
    IF children = << >> THEN acc
    ELSE PreorderEach(E, Tail(children), Preorder(E, Head(children), acc))

\* C29: forward DFS yields the blocks in depth-first preorder with the
\* successors in ascending start-address order: its sequence is that of a
\* recursive preorder DFS from the entry block that descends fully into the
\* lowest unvisited successor before backtracking.
C29_ForwardDfsIsRecursivePreorder ==
    (trav.kind = "dfs" /\ trav.start = -1 /\ ~trav.heads) =>
        YieldsSuffix(trav, Preorder(edges, 0, << >>))

\* A finished DFS of the diamond: the join block comes before the second
\* branch.
C29_Witness ==
    /\ trav.kind = "dfs" /\ trav.start = -1 /\ ~trav.heads
    /\ trav.status = "done"
    /\ edges = GDiamond
    /\ trav.out = <<0, 1, 3, 2>>

\* The least number of edges from the entry block to block b (b reachable).
RECURSIVE DistFrom(_, _, _, _)
DistFrom(E, S, b, d) ==
    IF b \in S THEN d
    ELSE DistFrom(E, S \cup {x \in Blocks : \E a \in S : <<a, x>> \in E}, b,
                  d + 1)

Dist(E, b) == DistFrom(E, {0}, b, 0)

\* The position in the list s of the parent block b was first reached from:
\* the first block of s with an edge to b (0: none).
FirstParent(E, s, b) ==
    IF \E i \in 1 .. Len(s) : <<s[i], b>> \in E
    THEN CHOOSE i \in 1 .. Len(s) :
            <<s[i], b>> \in E /\ \A j \in 1 .. (i - 1) : <<s[j], b>> \notin E
    ELSE 0

\* C30: forward BFS yields the blocks in level order: a block yielded before
\* another is at most as far from the entry block (in edges) as the other,
\* and of the successors reached from one parent those with lower start
\* addresses come first.
C30_ForwardBfsIsLevelOrder ==
    (trav.kind = "bfs" /\ trav.start = -1 /\ ~trav.heads) =>
        \A i, j \in 1 .. Len(trav.out) :
            i < j =>
               /\ Dist(edges, trav.out[i]) <= Dist(edges, trav.out[j])
               /\ (i > 1 /\ FirstParent(edges, trav.out, trav.out[i])
                             = FirstParent(edges, trav.out, trav.out[j]))
                    => StartEA(trav.out[i]) < StartEA(trav.out[j])

\* A finished BFS of the diamond: both branches come before the join block.
C30_Witness ==
    /\ trav.kind = "bfs" /\ trav.start = -1 /\ ~trav.heads
    /\ trav.status = "done"
    /\ edges = GDiamond
    /\ trav.out = <<0, 1, 2, 3>>


---------------------------------------------------------------------------
(* Claims on instruction-level traversal from a start address (SpecTrav).   *)

\* The heads a traversal from the head `start` walks in block b: from start
\* on in the first block (to the block end, or down to the block start in a
\* reverse traversal), the whole block otherwise.
HeadsFromStart(kind, start, first, b) ==
    IF kind \in Backward
    THEN Reverse(Heads(StartEA(b), IF first THEN start + 1 ELSE EndEA(b)))
    ELSE Heads(IF first THEN start ELSE StartEA(b), EndEA(b))

\* The heads of the blocks out[i .. Len(out)] one after the other.
RECURSIVE HeadsOfBlocks(_, _, _, _)
HeadsOfBlocks(kind, start, out, i) ==
    IF i > Len(out) THEN << >>
    ELSE HeadsFromStart(kind, start, i = 1, out[i])
            \o HeadsOfBlocks(kind, start, out, i + 1)

\* C31: an instruction-level traversal (DFS or BFS, forward or reverse) with
\* a start address that is an instruction head yields the start address
\* first, walks the first visited block from the start address to the block
\* end (forward) or down to the block start (reverse), and walks every later
\* block in full.
C31_HeadsBeginAtStart ==
    (trav.heads /\ trav.start # -1 /\ IsHead(trav.start)
        /\ find_block(trav.start) \in Blocks /\ trav.out # << >>) =>
       /\ trav.hout # << >> => trav.hout[1] = trav.start
       /\ trav.hout \o trav.pending
             = HeadsOfBlocks(trav.kind, trav.start, trav.out, 1)


---------------------------------------------------------------------------
(* Claims on the life of a block's builder generator (Spec).                *)

\* How far the enumeration of block b has come: 0 not started (no stored
\* generator), 1 partially enumerated (the stored generator is suspended),
\* 2 fully enumerated (the stored generator is exhausted).
Enumerated(gcache, gs, b) ==
    IF gcache[b] = 0 THEN 0
    ELSE IF gs[gcache[b]].status = "done" THEN 2 ELSE 1

\* The builder generators get_paths has created for block b.
BuildersOf(b) == {g \in 1 .. Len(gens) : gens[g].root = b}

C32_OneBuilderPerBlock ==
    \A b \in Blocks :
        /\ Cardinality(BuildersOf(b)) <= 1
        /\ gen_cache[b] # 0 => BuildersOf(b) = {gen_cache[b]}
        /\ gen_cache[b] = 0 => BuildersOf(b) = {}
        /\ \A c \in 1 .. Len(calls) :
              (calls[c].blk = b /\ calls[c].gen # 0) => calls[c].gen = gen_cache[b]

\* C32: per block, the enumeration only moves forward through not started,
\* partially enumerated and fully enumerated: get_paths creates at most one
\* builder generator per block for the life of the graph, every later call
\* uses the stored one, and an exhausted one is never restarted or replaced.
C32_EnumerationOnlyMovesForward ==
    /\ []C32_OneBuilderPerBlock
    /\ [][\A b \in Blocks :
             /\ Enumerated(gen_cache', gens', b) >= Enumerated(gen_cache, gens, b)
             /\ gen_cache[b] # 0 => gen_cache'[b] = gen_cache[b]
             /\ \A g \in 1 .. Len(gens) :
                   /\ g \in 1 .. Len(gens') /\ gens'[g].root = gens[g].root
                   /\ gens[g].status = "done" => gens'[g] = gens[g]]_vars

\* Two get_paths objects for one block, the second created while the first
\* was suspended in the builder, both taken to the end of the one builder of
\* the block, which gave several paths.
C32_Witness ==
    \E c \in 1 .. Len(calls) : \E i \in EarlierSame(c) :
        /\ calls[c].snap[i].phase = "gen"
        /\ calls[c].phase = "done" /\ calls[i].phase = "done"
        /\ calls[c].gen = calls[i].gen /\ calls[c].gen = gen_cache[calls[c].blk]
        /\ gens[calls[c].gen].status = "done"
        /\ Len(path_cache[calls[c].blk]) >= 2


---------------------------------------------------------------------------
(* Claims on the history of cpu_context requests (SpecCtx).                 *)

\* A fresh default context after the processor step on every instruction of
\* the blocks chain[i], chain[i + 1], ..., the last block up to `end`.
RECURSIVE Replay(_, _, _)
Replay(chain, i, end) ==
    IF i > Len(chain) THEN << >>
    ELSE Heads(StartEA(chain[i]), IF i = Len(chain) THEN end ELSE EndEA(chain[i]))
            \o Replay(chain, i + 1, end)

\* C33: what a cpu_context request returns depends on the path and on the
\* requested address only, not on the requests made before: it is the
\* default context after a replay of every instruction along the path, from
\* the start of the path's first block to the end of the
\* request (the instruction at the requested address included, the block's
\* end for the default request); the cached context of the node is that
\* value too.
C33_ContextDependsOnPathAndAddressOnly ==
    /\ last.op = "ctx" =>
          last.ret = Replay(Chain(nodes, last.node), 1, EndOfRequest)
    /\ \A n \in 1 .. Len(nodes) :
          nodes[n].has_ctx => nodes[n].ctx = Replay(Chain(nodes, n), 1, nodes[n].ctx_ea)

\* A request before the cached fill-point, on a node whose parent had been
\* left at an address inside its block by an earlier request, so that the
\* request moved the parent's context and made the node's anew.
C33_Witness ==
    /\ last.op = "ctx"
    /\ last.before.has_ctx /\ last.before.ctx_ea > EndOfRequest
    /\ last.before.prev # 0
    /\ \E i \in 1 .. Len(last.execs) : last.execs[i].node = last.before.prev
    /\ \E m \in 1 .. Len(nodes) :
          m # last.node /\ nodes[m].prev = last.before.prev /\ nodes[m].has_ctx


---------------------------------------------------------------------------
(* Claims on two get_paths objects alive at once (Spec).                    *)

\* Object i was alive (created and not yet ended) when object c was made.
AliveAtCreation(i, c) == calls[c].snap[i].phase \in {"new", "cached", "gen"}

\* C34: when two get_paths objects for the same block are alive at once and
\* are advanced in any alternation, each of them, taken to its end, has
\* yielded every path to the block exactly once.  Stated for the graphs
\* whose only block without predecessors is the entry.
C34_InterleavedConsumersAreComplete ==
    \A c \in 1 .. Len(calls) : \A i \in EarlierSame(c) :
        (EntryIsOnlyRoot(edges) /\ AliveAtCreation(i, c)
         /\ calls[c].phase = "done" /\ calls[i].phase = "done")
        => /\ ChainsOf(calls[c].out) = WalksTo(edges, calls[c].blk)
           /\ ChainsOf(calls[i].out) = WalksTo(edges, calls[i].blk)
           /\ NoRepeat(calls[c].out)
           /\ NoRepeat(calls[i].out)


---------------------------------------------------------------------------
(* Claims on the paths of the entry block (Spec).                           *)

\* C35: on every graph, get_paths for an address of the function entry
\* block yields exactly one path, a parentless PathBlock of the entry block,
\* and get_paths for a block that can be reached from the entry over
\* forward edges yields at least one path, also when a loop branches back
\* to the entry block.
C35_EntryBlockHasOnePath ==
    \A c \in 1 .. Len(calls) :
        calls[c].phase = "done"
        => /\ calls[c].blk = 0 =>
                 /\ Len(calls[c].out) = 1
                 /\ nodes[calls[c].out[1]] = PathBlock(0, 0)
           /\ WalksTo(edges, calls[c].blk) # {} => calls[c].out # << >>


---------------------------------------------------------------------------
(* Claims on a processor step that raises inside cpu_context (SpecFault).   *)

\* No instruction address occurs twice in the context s.
NoStepTwice(s) == \A i, j \in 1 .. Len(s) : i # j => s[i] # s[j]

\* The last request was ended by the processor step raising part-way
\* through the replay on the requested node's own context: some steps of
\* it had been applied to that context.
RaisedPartWay ==
    /\ last.op = "fault"
    /\ last.execs # << >>
    /\ last.execs[Len(last.execs)].node = last.node

\* C36: when the processor step raises part-way through a replay inside
\* cpu_context, the node's cached snapshot and fill-point stay consistent:
\* the next request on the same node returns what a replay from scratch
\* gives, with no instruction applied twice.
C36_ConsistentAfterRaise ==
    [][(RaisedPartWay /\ last'.op = "ctx" /\ last'.node = last.node)
          => /\ last'.ret = Replay(Chain(nodes, last.node), 1, last'.end)
             /\ NoStepTwice(last'.ret)]_vars


---------------------------------------------------------------------------
(* Claims on the end of the reverse traversals (SpecTravLive).              *)

\* The number of blocks a reverse traversal yields from block b on: b and,
\* for every predecessor that starts before b, what it yields from there.
RECURSIVE YieldsFrom(_, _)
RECURSIVE YieldsFromAll(_, _)
YieldsFrom(E, b) ==
    1 + YieldsFromAll(E, {p \in Blocks : <<p, b>> \in E /\ StartEA(p) < StartEA(b)})

YieldsFromAll(E, S) ==
    IF S = {} THEN 0
    ELSE LET b == CHOOSE x \in S : TRUE
         IN YieldsFrom(E, b) + YieldsFromAll(E, S \ {b})

\* The number of blocks still to be yielded for the pending list s.
RECURSIVE StillToYield(_, _)
StillToYield(E, s) ==
    IF s = << >> THEN 0 ELSE YieldsFrom(E, Head(s)) + StillToYield(E, Tail(s))

\* A reverse traversal from a start address inside a block, or without one.
ReverseFromABlock ==
    /\ trav.kind \in Backward
    /\ trav.status \in {"new", "running"}
    /\ (trav.start = -1 \/ find_block(trav.start) \in Blocks)

\* C37: reverse DFS and reverse BFS end on every graph, with cycles and
\* self-loops too: from any start block the pending list becomes empty.
\* Every block yielded lowers the number of blocks still to be yielded.
C37_ReverseTraversalsTerminate ==
    /\ ReverseFromABlock ~> (trav.status = "done" /\ trav.non_visited = << >>)
    /\ [][(trav.kind \in Backward /\ trav.status = "running")
             => IF Len(trav'.out) > Len(trav.out)
                THEN StillToYield(edges, trav'.non_visited)
                        < StillToYield(edges, trav.non_visited)
                ELSE trav'.non_visited = trav.non_visited]_vars

\* A reverse traversal of blocks that has ended on the graph with a
\* self-loop and a cycle, after it went through the block with the self-loop.
C37_Witness ==
    /\ trav.kind \in Backward /\ ~trav.heads
    /\ trav.status = "done" /\ trav.non_visited = << >>
    /\ find_block(trav.start) = 3
    /\ \E i \in 1 .. Len(trav.out) :
          /\ <<trav.out[i], trav.out[i]>> \in edges
          /\ \E j \in 1 .. (i - 1) : <<trav.out[j], trav.out[i]>> \in edges
                                     /\ <<trav.out[i], trav.out[j]>> \in edges


---------------------------------------------------------------------------
(* Claims on repeated blocks in the reverse traversals (SpecTrav).          *)

\* C38: reverse DFS and reverse BFS yield each block at most once, as the
\* forward traversals do, also when a block can be reached backwards from
\* the start block along several chains of predecessors.
C38_ReverseYieldsEachBlockOnce ==
    trav.kind \in Backward =>
       \A i, j \in 1 .. Len(trav.out) : i # j => trav.out[i] # trav.out[j]


---------------------------------------------------------------------------
(* Claims on get_paths against paths_to_ea (SpecBoth).                      *)

\* Every edge of E goes from a block to a block that starts after it.
ForwardOnly(E) == \A e \in E : StartEA(e[1]) < StartEA(e[2])

\* No list occurs twice in the list of lists s.
EachOnce(s) == \A i, j \in 1 .. Len(s) : i # j => s[i] # s[j]

\* C39: on a graph whose edges all go from a lower to a higher start
\* address and whose only block without predecessors is the entry block,
\* get_paths(ea) and paths_to_ea(ea), both taken to completion, give the
\* same set of block sequences (a get_paths chain read from its root to the
\* target is a paths_to_ea list), each sequence once.
C39_GetPathsAgreesWithPathsToEa ==
    \A c \in 1 .. Len(calls) :
        (ForwardOnly(edges) /\ EntryIsOnlyRoot(edges)
         /\ calls[c].phase = "done" /\ walk.status = "done"
         /\ find_block(walk.ea) = calls[c].blk)
        => /\ ChainsOf(calls[c].out) = Range(walk.out)
           /\ NoRepeat(calls[c].out)
           /\ EachOnce(walk.out)


---------------------------------------------------------------------------
(* Claims on the operand-size predicates (SpecOpSize).                      *)

\* The number of the three predicates that are true.
TrueOf(r) ==
    (IF r.op16 THEN 1 ELSE 0) + (IF r.op32 THEN 1 ELSE 0)
        + (IF r.op64 THEN 1 ELSE 0)

\* C40: the operand-size predicates classify every instruction
\* unambiguously: for every combination of the mode bits (at most one of
\* the 32-bit and the 64-bit bit set), the natural-operand-size bit, REX.W
\* and the default-64-bit instruction class, exactly one of op16, op32 and
\* op64 is true (on a 64-bit build, where the 64-bit mode exists).
C40_ExactlyOneOperandSize ==
    (/\ calc.fn = "opsize"
     /\ calc.args[2]
     /\ And16(calc.args[1].auxpref, 24) # 24)
    => TrueOf(calc.result) = 1

====
